---- MODULE Spec2Model ----
(***************************************************************************)
(* A model of the DebugPlaywright observer of src/src/index.ts: the page   *)
(* event listeners (request, requestfinished, response, close), the        *)
(* screenshot pipeline (printScreenshot, printImage) and the asynchronous  *)
(* continuations of the handlers.  Every handler invocation is a task; the *)
(* code between two awaits is one atomic step of that task.  Terminal      *)
(* lines and calls to the page, the file system and external programs are  *)
(* appended to one trace, each tagged with the task that made it.          *)
(*                                                                         *)
(* Strings the code pads, lower-cases or compares (HTTP methods, status    *)
(* codes) are sequences of one-character strings.                          *)
(***************************************************************************)
EXTENDS Integers, Sequences, FiniteSets, TLC

VARIABLES
  dp,         \* observer id -> the DebugPlaywright object's fields
  listeners,  \* page -> observer ids in the order addListener registered them
  closed,     \* page -> page.isClosed()
  tasks,      \* handler invocations and direct calls, in the order they started
  trace,      \* terminal lines and external calls, in the order they happened
  tmp,        \* number of temporary file names generated so far
  env,        \* the process environment: the TMUX marker and the programs on PATH
  sent        \* page -> the requests the page has started, with whether each finished

vars == <<dp, listeners, closed, tasks, trace, tmp, env, sent>>

\* Bound: handler invocations (events handled plus direct calls) per behaviour.
MaxTasks == 2

----------------------------------------------------------------------------
\* Strings as character sequences

GET == <<"G", "E", "T">>
POST == <<"P", "O", "S", "T">>
get == <<"g", "e", "t">>
post == <<"p", "o", "s", "t">>

Methods == {GET, POST}
ResourceTypes == {"document", "image"}

\* String.prototype.toLowerCase on the letters that occur in the methods.
LowerChar(c) ==
  CASE c = "G" -> "g" [] c = "E" -> "e" [] c = "T" -> "t" [] c = "P" -> "p"
    [] c = "O" -> "o" [] c = "S" -> "s" [] OTHER -> c

toLowerCase(s) == [i \in 1..Len(s) |-> LowerChar(s[i])]

\* String.prototype.padEnd(n, ' ')
padEnd(s, n) == IF Len(s) >= n THEN s ELSE s \o [i \in 1..(n - Len(s)) |-> " "]

Digit(d) ==
  CASE d = 0 -> "0" [] d = 1 -> "1" [] d = 2 -> "2" [] d = 3 -> "3" [] d = 4 -> "4"
    [] d = 5 -> "5" [] d = 6 -> "6" [] d = 7 -> "7" [] d = 8 -> "8" [] OTHER -> "9"

\* Number.prototype.toString() of a non-negative integer
RECURSIVE toString(_)
toString(n) == IF n < 10 THEN <<Digit(n)>> ELSE toString(n \div 10) \o <<Digit(n % 10)>>

----------------------------------------------------------------------------
\* Program constants

DEFAULT_COMMAND == <<"wezterm", "imgcat">>
LOAD_STATE == "domcontentloaded"
methodPadLength == 4
StatusPad == 15
ReportMethodPad == 4

\* URLs as the parts new URL() splits them into.
Url(origin, pathname, search) == [origin |-> origin, pathname |-> pathname, search |-> search]
Urls == {Url("https://example.com", "/page", "?q=1")}

\* url.pathname + url.search
pathWithParameters(url) == <<url.pathname, url.search>>

\* A request: id numbers the requests a page starts (0: started before anyone
\* watched the page).
Request(id, method, rtype, url) == [id |-> id, method |-> method, rtype |-> rtype, url |-> url]
Requests(ids) == [id : ids, method : Methods, rtype : ResourceTypes, url : Urls]

\* A classifier whose success class reaches up to 300 inclusive.
responseStatusInclusive(code) ==
  IF code <= 300 THEN "heart" ELSE IF code < 400 THEN "rocket" ELSE "poo"

\* A classifier that takes redirects for successes.
responseStatusNoRedirect(code) == IF code < 400 THEN "heart" ELSE "poo"

\* responseStatus: the three marks are heart (success), rocket (redirect), poo (error).
responseStatus(code) == IF code < 300 THEN "heart" ELSE IF code < 400 THEN "rocket" ELSE "poo"

\* temporaryFile({extension}): a fresh name for every call
temporaryFile(n, ext) == [id |-> n, extension |-> ext]

NoFile == [id |-> 0, extension |-> "none"]

----------------------------------------------------------------------------
\* Trace entries and tasks

E(t, k, a) == [t |-> t, k |-> k, a |-> a]

\* console.log lines
StdoutKinds == {"adding", "status", "report", "postparams", "diag", "notice", "rendered",
                "closedline", "payload", "coverage", "logline", "lynxout"}
\* console.error lines
StderrKinds == {"stderr"}
OutputKinds == StdoutKinds \cup StderrKinds

NoRequest == Request(0, <<>>, "none", Url("", "", ""))

\* A handler invocation.  o: the observer; ev: what started it; req/status: the
\* event's data; pc: where it is suspended, or done / rejected; file: the temporary
\* file it works on; ctype: the content-type header once read; n: the request
\* counter after its synchronous part; cfg: the observer's fields when it started;
\* wasClosed: page.isClosed() when it started.
Task(o, ev, req, status, d) ==
  [o |-> o, ev |-> ev, req |-> req, status |-> status, pc |-> "done",
   file |-> NoFile, ctype |-> "unread", n |-> d.requestCount, cfg |-> d,
   wasClosed |-> closed[d.page] \/ ev = "close"]

\* The state a handler step works on.
St(d, ts, tr, n) == [dp |-> d, tasks |-> ts, trace |-> tr, tmp |-> n]

Cur == St(dp, tasks, trace, tmp)

Emit(S, entries) == [S EXCEPT !.trace = @ \o entries]

SetPc(S, t, pc) == [S EXCEPT !.tasks[t].pc = pc]

----------------------------------------------------------------------------
\* printImage and printScreenshot

\* command.includes(word), on the words of the command line
includes(command, word) == \E i \in 1..Len(command) : command[i] = word

\* A probe order with viu before chafa.
CandidatesViuFirst == <<"viu", "chafa">>

Candidates == <<"chafa", "viu">>

\* The probe loop of printImage from candidate i on: `which` succeeds for an
\* installed program and throws for a missing one; the first one found is taken.
RECURSIVE probe(_, _, _)
probe(i, t, command) ==
  IF i > Len(Candidates) THEN [command |-> command, entries |-> <<>>]
  ELSE LET c == Candidates[i] IN
       IF c \in env.installed
       THEN [command |-> <<c>>,
             entries |-> <<E(t, "which", c), E(t, "notice", c)>>]
       ELSE LET rest == probe(i + 1, t, command) IN
            [rest EXCEPT !.entries = <<E(t, "which", c), E(t, "stderr", c)>> \o @]

\* Outcomes of execSync(`${command} ${file}`)
ExecOutcomes == {"ok", "fail"}

\* A renderer whose failure turns the observer's listening off.
printImageAborting(S, o, t, file, res) ==
  LET d == S.dp[o]
      pr == IF includes(d.command, "imgcat") /\ env.TMUX
            THEN probe(1, t, d.command)
            ELSE [command |-> d.command, entries |-> <<>>]
      call == E(t, "exec", [command |-> pr.command, file |-> file])
      line == IF res = "ok" THEN E(t, "rendered", file) ELSE E(t, "diag", "renderer")
  IN  Emit([S EXCEPT !.dp[o].command = pr.command, !.dp[o].listen = (res = "ok") /\ @],
           pr.entries \o <<call, line>>)

\* A renderer whose fallback switches the command of every observer.
printImageShared(S, o, t, file, res) ==
  LET d == S.dp[o]
      pr == IF includes(d.command, "imgcat") /\ env.TMUX
            THEN probe(1, t, d.command)
            ELSE [command |-> d.command, entries |-> <<>>]
      call == E(t, "exec", [command |-> pr.command, file |-> file])
      line == IF res = "ok" THEN E(t, "rendered", file) ELSE E(t, "diag", "renderer")
  IN  Emit([S EXCEPT !.dp = [i \in DOMAIN S.dp |-> [S.dp[i] EXCEPT !.command = pr.command]]],
           pr.entries \o <<call, line>>)

\* A renderer that runs the fallback it found without keeping it.
printImageForgetful(S, o, t, file, res) ==
  LET d == S.dp[o]
      pr == IF includes(d.command, "imgcat") /\ env.TMUX
            THEN probe(1, t, d.command)
            ELSE [command |-> d.command, entries |-> <<>>]
      call == E(t, "exec", [command |-> pr.command, file |-> file])
      line == IF res = "ok" THEN E(t, "rendered", file) ELSE E(t, "diag", "renderer")
  IN  Emit(S, pr.entries \o <<call, line>>)

\* printImage(file) run by task t on observer o; res is how the renderer ends.
printImage(S, o, t, file, res) ==
  LET d == S.dp[o]
      pr == IF includes(d.command, "imgcat") /\ env.TMUX
            THEN probe(1, t, d.command)
            ELSE [command |-> d.command, entries |-> <<>>]
      call == E(t, "exec", [command |-> pr.command, file |-> file])
      line == IF res = "ok" THEN E(t, "rendered", file) ELSE E(t, "diag", "renderer")
  IN  Emit([S EXCEPT !.dp[o].command = pr.command], pr.entries \o <<call, line>>)

\* An early return taken when verbose is off instead of on.
skipsClosedPageQuiet(isClosed, verbose) == isClosed /\ ~verbose

\* The guard of printScreenshot's early return.
skipsClosedPage(isClosed, verbose) == isClosed /\ verbose

\* A printScreenshot that counts itself as a request.
printScreenshotStartCounting(S, o, t) ==
  LET d == S.dp[o]
      S0 == [S EXCEPT !.dp[o].requestCount = @ + 1] IN
  IF skipsClosedPage(closed[d.page], d.verbose)
  THEN SetPc(Emit(S0, <<E(t, "diag", "page is already closed")>>), t, "done")
  ELSE LET file == temporaryFile(S0.tmp + 1, "png")
           S1 == [S0 EXCEPT !.tmp = @ + 1, !.tasks[t].file = file, !.tasks[t].pc = "wait"]
       IN  Emit(S1, <<E(t, "wait", LOAD_STATE)>>)

\* printScreenshot up to its first await, run by task t on observer o.
printScreenshotStart(S, o, t) ==
  LET d == S.dp[o] IN
  IF skipsClosedPage(closed[d.page], d.verbose)
  THEN SetPc(Emit(S, <<E(t, "diag", "page is already closed")>>), t, "done")
  ELSE LET file == temporaryFile(S.tmp + 1, "png")
           S1 == [S EXCEPT !.tmp = @ + 1, !.tasks[t].file = file, !.tasks[t].pc = "wait"]
       IN  Emit(S1, <<E(t, "wait", LOAD_STATE)>>)

\* How an awaited page operation ends: it resolves, or it throws an Error whose
\* stack names the closed target, another Error, or a value that is no Error.
PageOutcomes == {"ok", "closedError", "otherError", "nonError"}

\* A catch block that swallows every Error when verbose is off.
catchScreenshotQuiet(S, o, t, r) ==
  LET d == S.dp[o] IN
  IF r \in {"closedError", "otherError"} /\ ~d.verbose
  THEN SetPc(S, t, "done")
  ELSE SetPc(Emit(S, <<E(t, "diag", r)>>), t, "done")

\* A catch block that prints its diagnostic twice.
catchScreenshotTwice(S, o, t, r) ==
  LET d == S.dp[o] IN
  IF r = "closedError" /\ ~d.verbose
  THEN SetPc(S, t, "done")
  ELSE SetPc(Emit(S, <<E(t, "diag", r), E(t, "diag", r)>>), t, "done")

\* The catch block of printScreenshot for a thrown outcome r.
catchScreenshot(S, o, t, r) ==
  LET d == S.dp[o] IN
  IF r \in {"closedError", "otherError"}
  THEN IF r = "closedError" /\ ~d.verbose
       THEN SetPc(S, t, "done")
       ELSE SetPc(Emit(S, <<E(t, "diag", r)>>), t, "done")
  ELSE SetPc(Emit(S, <<E(t, "diag", r)>>), t, "done")

\* printScreenshot resumes after waitForLoadState ended with r.
afterWait(S, o, t, r) ==
  IF r = "ok"
  THEN SetPc(Emit(S, <<E(t, "capture", [path |-> S.tasks[t].file,
                                        fullPage |-> S.dp[o].fullPage])>>), t, "capture")
  ELSE catchScreenshot(S, o, t, r)

\* A continuation that hands the file to the renderer whatever the capture did.
afterCaptureAlways(S, o, t, r, res) ==
  SetPc(printImage(S, o, t, S.tasks[t].file, res), t, "done")

\* printScreenshot resumes after page.screenshot ended with r; res is how the
\* renderer ends if printImage is reached.
afterCapture(S, o, t, r, res) ==
  IF r = "ok"
  THEN SetPc(printImage(Emit(S, <<E(t, "captured", S.tasks[t].file)>>),
                        o, t, S.tasks[t].file, res), t, "done")
  ELSE catchScreenshot(S, o, t, r)

----------------------------------------------------------------------------
\* The listeners addListener registers

\* An asset test that takes no request for an asset.
isAssetRequestNever(req) == FALSE

\* An asset test that compares the method with the upper-case GET.
isAssetRequestNonGet(req) == req.method # GET /\ req.rtype # "document"

\* The test handleRequestEvent uses to tell a subordinate asset request.
isAssetRequest(req) == req.method # get /\ req.rtype # "document"

\* A skip test that compares the counter before its increment.
skipsFirstRequestStale(eventName, requestCount, listen) ==
  eventName = "request" /\ (requestCount = 0 \/ ~listen)

\* A skip test that also skips the second counted request.
skipsFirstTwoRequests(eventName, requestCount, listen) ==
  eventName = "request" /\ (requestCount <= 2 \/ ~listen)

\* The test that skips the very first counted request.
skipsFirstRequest(eventName, requestCount, listen) ==
  eventName = "request" /\ (requestCount = 1 \/ ~listen)

\* A test that prints the POST parameters on every event of a POST request.
printsPOSTParamsOnEveryEvent(eventName, req, logPOSTParams) ==
  toLowerCase(req.method) = post /\ logPOSTParams

\* The test that prints the POST parameters.
printsPOSTParams(eventName, req, logPOSTParams) ==
  eventName = "requestfinished" /\ toLowerCase(req.method) = post /\ logPOSTParams

\* handleRequestEvent(data, eventName) up to its first await, as a new task.
handleRequestEvent(S, o, req, eventName) ==
  LET d == S.dp[o]
      t == Len(S.tasks) + 1
      S0 == [S EXCEPT !.tasks = Append(@, Task(o, eventName, req, 0, d))]
  IN
  IF ~d.listen THEN S0
  ELSE IF isAssetRequest(req)
  THEN IF d.logAssetRequests
       THEN Emit(S0, <<E(t, "report", [event |-> eventName, method |-> req.method,
                                       url |-> req.url])>>)
       ELSE S0
  ELSE
    LET cnt == IF eventName = "request" THEN d.requestCount + 1 ELSE d.requestCount
        S1 == [S0 EXCEPT !.dp[o].requestCount = cnt, !.tasks[t].n = cnt]
    IN
    IF skipsFirstRequest(eventName, cnt, d.listen) THEN S1
    ELSE
      LET S2 == Emit(S1, <<E(t, "report", [event |-> eventName,
                                           method |-> padEnd(req.method, ReportMethodPad),
                                           url |-> req.url])>>)
          S3 == IF printsPOSTParams(eventName, req, d.logPOSTParams)
                THEN Emit(S2, <<E(t, "postparams", req.url)>>)
                ELSE S2
      IN IF d.screenshots THEN printScreenshotStart(S3, o, t) ELSE S3

\* The content-type header: absent (null), or type/subtype split at the slash.
ContentType(parts) == [null |-> FALSE, parts |-> parts]
NullContentType == [null |-> TRUE, parts |-> <<>>]
ContentTypes == {NullContentType, ContentType(<<"text", "html">>),
                 ContentType(<<"image", "jpeg">>), ContentType(<<"image">>)}

\* A document test that lets every resource type through.
isDocumentAlways(req) == TRUE

\* The test the 'response' listener uses to tell a primary document.
isDocument(req) == req.rtype = "document"

\* A logger entry with the method left unpadded.
logEntryUnpadded(d, req, status) ==
  <<toString(status), req.method, pathWithParameters(req.url)>>

\* The entry the 'response' listener pushes on the logger.
logEntry(d, req, status) ==
  <<toString(status), padEnd(req.method, d.methodPadLength), pathWithParameters(req.url)>>

\* A 'response' listener without the listen gate.
onResponseUngated(S, o, req, status) ==
  LET d == S.dp[o]
      t == Len(S.tasks) + 1
      S0 == [S EXCEPT !.tasks = Append(@, Task(o, "response", req, status, d))]
  IN
  IF ~isDocument(req) THEN S0
  ELSE
    LET S1 == [S0 EXCEPT !.dp[o].logger = Append(@, logEntry(d, req, status))]
    IN IF responseStatus(status) = "rocket" THEN S1
       ELSE SetPc(Emit(S1, <<E(t, "header", "content-type")>>), t, "header")

\* The 'response' listener up to its first await, as a new task.
onResponse(S, o, req, status) ==
  LET d == S.dp[o]
      t == Len(S.tasks) + 1
      S0 == [S EXCEPT !.tasks = Append(@, Task(o, "response", req, status, d))]
  IN
  IF ~d.listen THEN S0
  ELSE IF ~isDocument(req) THEN S0
  ELSE
    LET S1 == [S0 EXCEPT !.dp[o].logger = Append(@, logEntry(d, req, status))]
    IN IF responseStatus(status) = "rocket" THEN S1
       ELSE SetPc(Emit(S1, <<E(t, "header", "content-type")>>), t, "header")

\* dumpformattedContent(response) up to its first await.
dumpformattedContent(S, o, t) ==
  LET mark == responseStatus(S.tasks[t].status) IN
  IF mark = "poo" \/ mark = "rocket" THEN SetPc(S, t, "done")
  ELSE SetPc(Emit(S, <<E(t, "header", "content-type")>>), t, "dumpHeader")

\* The 'response' listener resumes with the content-type header c.
afterHeader(S, o, t, c) ==
  LET k == S.tasks[t]
      d == S.dp[o]
      S1 == Emit([S EXCEPT !.tasks[t].ctype = c],
                 <<E(t, "status", [mark |-> responseStatus(k.status),
                                   status |-> padEnd(toString(k.status), StatusPad),
                                   method |-> padEnd(k.req.method, d.methodPadLength),
                                   url |-> k.req.url,
                                   contentType |-> c])>>)
  IN IF d.formattedContent THEN dumpformattedContent(S1, o, t) ELSE SetPc(S1, t, "done")

\* type.split('/')[1] ?? 'png'
extension(c) == IF Len(c.parts) >= 2 THEN c.parts[2] ELSE "png"

\* dumpformattedContent resumes with the content-type header c.
afterDumpHeader(S, o, t, c) ==
  IF ~c.null /\ Len(c.parts) >= 1 /\ c.parts[1] = "image"
  THEN LET file == temporaryFile(S.tmp + 1, extension(c))
           S1 == [S EXCEPT !.tmp = @ + 1, !.tasks[t].file = file, !.tasks[t].pc = "body"]
       IN  Emit(S1, <<E(t, "body", S.tasks[t].req.url)>>)
  ELSE SetPc(Emit(S, <<E(t, "text", S.tasks[t].req.url)>>), t, "text")

\* dumpformattedContent resumes with the body bytes; res is how the renderer ends.
afterBody(S, o, t, res) ==
  LET file == S.tasks[t].file
      S1 == Emit(S, <<E(t, "writeFile", [file |-> file,
                                         content |-> <<"body", S.tasks[t].req.url>>])>>)
  IN SetPc(printImage(S1, o, t, file, res), t, "done")

\* dumpformattedContent resumes with the body text and hands it to lynx.
afterText(S, o, t) ==
  SetPc(Emit(S, <<E(t, "lynx", [stdin |-> <<"body", S.tasks[t].req.url>>])>>), t, "done")

\* An awaited read of the response rejects: nothing catches it.
rejectTask(S, t) == SetPc(S, t, "rejected")

\* line.join(' ')
join(line) == <<line[1], " ", line[2], " ", line[3]>>

RECURSIVE logLines(_, _, _)
logLines(t, logger, i) ==
  IF i > Len(logger) THEN <<>>
  ELSE <<E(t, "logline", join(logger[i]))>> \o logLines(t, logger, i + 1)

\* A dump that empties the logger once it is printed.
printLogsClearing(S, o, t) ==
  [Emit(S, <<E(t, "coverage", "today")>> \o logLines(t, S.dp[o].logger, 1))
     EXCEPT !.dp[o].logger = <<>>]

\* printLogs(): the dated header, then every entry of the logger in order.
printLogs(S, o, t) ==
  Emit(S, <<E(t, "coverage", "today")>> \o logLines(t, S.dp[o].logger, 1))

\* The URL a page is closed on: its prefix and the length of what its base64
\* payload decodes to.
PayloadLimit == 5120
DataHtmlPrefix == "data:text/html;base64"
PageUrl(prefix, length) == [prefix |-> prefix, length |-> length]
PageUrls == {PageUrl("https:", 0), PageUrl(DataHtmlPrefix, 16),
             PageUrl(DataHtmlPrefix, 6000)}

\* The larger of two lengths instead of the smaller.
Max(a, b) == IF a < b THEN b ELSE a

Min(a, b) == IF a < b THEN a ELSE b

\* The 'close' listener, as a new task.
onClose(S, o, url) ==
  LET d == S.dp[o]
      t == Len(S.tasks) + 1
      S0 == [S EXCEPT !.tasks = Append(@, Task(o, "close", NoRequest, 0, d))]
      S1 == Emit(S0, <<E(t, "closedline", url)>>)
      S2 == IF url.prefix = DataHtmlPrefix /\ d.screenshots
            THEN Emit(S1, <<E(t, "payload", Min(url.length, PayloadLimit))>>)
            ELSE S1
  IN printLogs(S2, o, t)

\* An event reaches the listeners of a page in the order they were registered.
RECURSIVE emitRequest(_, _, _, _, _)
emitRequest(S, ls, i, req, eventName) ==
  IF i > Len(ls) THEN S
  ELSE emitRequest(handleRequestEvent(S, ls[i], req, eventName), ls, i + 1, req, eventName)

RECURSIVE emitResponse(_, _, _, _, _)
emitResponse(S, ls, i, req, status) ==
  IF i > Len(ls) THEN S
  ELSE emitResponse(onResponse(S, ls[i], req, status), ls, i + 1, req, status)

RECURSIVE emitClose(_, _, _, _)
emitClose(S, ls, i, url) ==
  IF i > Len(ls) THEN S
  ELSE emitClose(onClose(S, ls[i], url), ls, i + 1, url)

----------------------------------------------------------------------------
\* The observer of the main specification and its page

Flags == [screenshots : BOOLEAN, fullPage : BOOLEAN, logAssetRequests : BOOLEAN,
          logPOSTParams : BOOLEAN, formattedContent : BOOLEAN, verbose : BOOLEAN]

\* new DebugPlaywright({page, listen, ...flags}): the fields after construction.
DebugPlaywright(page, listen, f) ==
  [page |-> page, command |-> DEFAULT_COMMAND, formattedContent |-> f.formattedContent,
   fullPage |-> f.fullPage, listen |-> listen, logAssetRequests |-> f.logAssetRequests,
   logPOSTParams |-> f.logPOSTParams, methodPadLength |-> methodPadLength,
   requestCount |-> 0, screenshots |-> f.screenshots, verbose |-> f.verbose,
   logger |-> <<>>]

Statuses == {200, 302, 404}

\* The defaults of the constructor's options.
DefaultFlags == [screenshots |-> TRUE, fullPage |-> TRUE, logAssetRequests |-> FALSE,
                 logPOSTParams |-> TRUE, formattedContent |-> FALSE, verbose |-> FALSE]

\* The flags the response and close listeners read, the others at their defaults.
ResponseFlags == {[DefaultFlags EXCEPT !.formattedContent = a, !.screenshots = b] :
                    a \in BOOLEAN, b \in BOOLEAN}

\* One listening observer on one open page, constructed with flags from F.
InitWith(F) ==
  /\ \E f \in F : dp = [o \in {1} |-> DebugPlaywright(1, TRUE, f)]
  /\ listeners = [p \in {1} |-> <<1>>]
  /\ closed = [p \in {1} |-> FALSE]
  /\ tasks = <<>>
  /\ trace = <<E(0, "adding", 1)>>
  /\ tmp = 0
  /\ env = [TMUX |-> FALSE, installed |-> {}]
  /\ sent = [p \in {1} |-> <<>>]

Init == InitWith(Flags)

Pages == DOMAIN closed

Apply(S) == /\ dp' = S.dp /\ tasks' = S.tasks /\ trace' = S.trace /\ tmp' = S.tmp

\* There is a listener on page p and room for its handlers under the bound max.
Room(p, max) == Len(listeners[p]) >= 1 /\ Len(tasks) + Len(listeners[p]) <= max

\* The page starts a request and emits 'request'.
RequestEvent(p, req, max) ==
  /\ ~closed[p] /\ Room(p, max)
  /\ req.id = Len(sent[p]) + 1
  /\ sent' = [sent EXCEPT ![p] = Append(@, [req |-> req, finished |-> FALSE])]
  /\ Apply(emitRequest(Cur, listeners[p], 1, req, "request"))
  /\ UNCHANGED <<listeners, closed, env>>

\* A started request finishes and the page emits 'requestfinished' for it.
RequestFinishedEvent(p, i, max) ==
  /\ ~closed[p] /\ Room(p, max)
  /\ i \in DOMAIN sent[p] /\ ~sent[p][i].finished
  /\ sent' = [sent EXCEPT ![p][i].finished = TRUE]
  /\ Apply(emitRequest(Cur, listeners[p], 1, sent[p][i].req, "requestfinished"))
  /\ UNCHANGED <<listeners, closed, env>>

\* The page emits 'response'.
ResponseEvent(p, req, status, max) ==
  /\ ~closed[p] /\ Room(p, max)
  /\ Apply(emitResponse(Cur, listeners[p], 1, req, status))
  /\ UNCHANGED <<listeners, closed, env, sent>>

\* The page closes: isClosed() turns true and the page emits 'close'.
CloseEvent(p, url, max) ==
  /\ ~closed[p] /\ Room(p, max)
  /\ closed' = [closed EXCEPT ![p] = TRUE]
  /\ Apply(emitClose(Cur, listeners[p], 1, url))
  /\ UNCHANGED <<listeners, env, sent>>

\* The test calls printScreenshot() on an observer.
CallPrintScreenshot(o, max) ==
  /\ Len(tasks) < max
  /\ LET t == Len(tasks) + 1
         S0 == [Cur EXCEPT !.tasks = Append(@, Task(o, "printScreenshot", NoRequest, 0, dp[o]))]
     IN Apply(printScreenshotStart(S0, o, t))
  /\ UNCHANGED <<listeners, closed, env, sent>>

PageOf(t) == dp[tasks[t].o].page

\* waitForLoadState ends: on a closed page it may still resolve (the state was
\* reached before) and only a closed page raises the closed-target error.
WaitOutcomes(p) == IF closed[p] THEN PageOutcomes ELSE PageOutcomes \ {"closedError"}

\* page.screenshot ends: a closed page is never captured.
CaptureOutcomes(p) == IF closed[p] THEN PageOutcomes \ {"ok"} ELSE PageOutcomes \ {"closedError"}

WaitEnds(t, r) ==
  /\ tasks[t].pc = "wait" /\ r \in WaitOutcomes(PageOf(t))
  /\ Apply(afterWait(Cur, tasks[t].o, t, r))
  /\ UNCHANGED <<listeners, closed, env, sent>>

CaptureEnds(t, r, res) ==
  /\ tasks[t].pc = "capture" /\ r \in CaptureOutcomes(PageOf(t))
  /\ Apply(afterCapture(Cur, tasks[t].o, t, r, res))
  /\ UNCHANGED <<listeners, closed, env, sent>>

\* response.headerValue('content-type') resolves for the status line.
HeaderResolves(t, c) ==
  /\ tasks[t].pc = "header"
  /\ Apply(afterHeader(Cur, tasks[t].o, t, c))
  /\ UNCHANGED <<listeners, closed, env, sent>>

\* ... and again inside dumpformattedContent, with the same header.
DumpHeaderResolves(t) ==
  /\ tasks[t].pc = "dumpHeader"
  /\ Apply(afterDumpHeader(Cur, tasks[t].o, t, tasks[t].ctype))
  /\ UNCHANGED <<listeners, closed, env, sent>>

BodyResolves(t, res) ==
  /\ tasks[t].pc = "body"
  /\ Apply(afterBody(Cur, tasks[t].o, t, res))
  /\ UNCHANGED <<listeners, closed, env, sent>>

TextResolves(t) ==
  /\ tasks[t].pc = "text"
  /\ Apply(afterText(Cur, tasks[t].o, t))
  /\ UNCHANGED <<listeners, closed, env, sent>>

\* A read of the response (header, body, text) rejects once the page is gone.
ReadRejects(t) ==
  /\ tasks[t].pc \in {"header", "dumpHeader", "body", "text"}
  /\ closed[PageOf(t)]
  /\ Apply(rejectTask(Cur, t))
  /\ UNCHANGED <<listeners, closed, env, sent>>

\* The request side: request events, direct printScreenshot calls, page close and
\* the continuations of printScreenshot.
NextRequests ==
  \/ \E p \in Pages, req \in Requests(1..MaxTasks) : RequestEvent(p, req, MaxTasks)
  \/ \E p \in Pages, i \in 1..MaxTasks : RequestFinishedEvent(p, i, MaxTasks)
  \/ \E p \in Pages, url \in PageUrls : CloseEvent(p, url, MaxTasks)
  \/ \E o \in DOMAIN dp : CallPrintScreenshot(o, MaxTasks)
  \/ \E t \in DOMAIN tasks, r \in PageOutcomes : WaitEnds(t, r)
  \/ \E t \in DOMAIN tasks, r \in PageOutcomes, res \in ExecOutcomes : CaptureEnds(t, r, res)

SpecRequests == Init /\ [][NextRequests]_vars

\* The continuations of the response listener and of dumpformattedContent.
ResponseSteps ==
  \/ \E t \in DOMAIN tasks, c \in ContentTypes : HeaderResolves(t, c)
  \/ \E t \in DOMAIN tasks : DumpHeaderResolves(t)
  \/ \E t \in DOMAIN tasks, res \in ExecOutcomes : BodyResolves(t, res)
  \/ \E t \in DOMAIN tasks : TextResolves(t)
  \/ \E t \in DOMAIN tasks : ReadRejects(t)

\* The response side: response events, page close and the continuations.
NextResponses ==
  \/ \E p \in Pages, req \in Requests({0}), status \in Statuses :
        ResponseEvent(p, req, status, MaxTasks)
  \/ \E p \in Pages, url \in PageUrls : CloseEvent(p, url, MaxTasks)
  \/ ResponseSteps

SpecResponses == InitWith(ResponseFlags) /\ [][NextResponses]_vars

\* The response side again, from every combination of the six flags, with GET
\* requests only and a page closed on an ordinary URL.
NextResponsesAllFlags ==
  \/ \E p \in Pages, req \in {r \in Requests({0}) : r.method = GET}, status \in Statuses :
        ResponseEvent(p, req, status, MaxTasks)
  \/ \E p \in Pages : CloseEvent(p, PageUrl("https:", 0), MaxTasks)
  \/ ResponseSteps

SpecResponsesAllFlags == Init /\ [][NextResponsesAllFlags]_vars

----------------------------------------------------------------------------
\* The teardown hook: afterEachHandler, maybeConvertMovie and movieToGIF

TestStatuses == {"passed", "failed", "timedOut"}

\* A status test that takes every test that did not pass for a failed one.
notPassed(status) == status # "passed"

\* testInfo.status === 'failed'
failed(status) == status = "failed"

\* Strings the conversion command is built from are sequences of pieces; the
\* placeholders are pieces of their own.
Template == <<"ffmpeg -i ", "{video}", " -vf setpts=4.0*PTS,scale=1200:-1 ", "{gif}">>

\* The replacement patterns of String.prototype.replace in the replacement
\* string: $& stands for the matched text and $$ for a dollar sign.
RECURSIVE expand(_, _)
expand(by, pat) ==
  IF by = <<>> THEN <<>>
  ELSE <<IF by[1] = "$&" THEN pat ELSE IF by[1] = "$$" THEN "$" ELSE by[1]>>
         \o expand(SubSeq(by, 2, Len(by)), pat)

\* String.prototype.replace(pattern, by) with a string pattern: the first
\* occurrence only, with the replacement patterns of by expanded.
replace(s, pat, by) ==
  IF \E i \in 1..Len(s) : s[i] = pat
  THEN LET i == CHOOSE i \in 1..Len(s) : s[i] = pat /\ \A j \in 1..(i - 1) : s[j] # pat
       IN  SubSeq(s, 1, i - 1) \o expand(by, pat) \o SubSeq(s, i + 1, Len(s))
  ELSE s

\* What page.video() and video.path() answer: nothing, or a path as directory
\* and file name.
NoPath == <<>>
VideoPaths == {NoPath, <<"/videos/", "page.webm">>}
Videos == {"none", "video"}

\* What is on disk at the video's path once the context is closed.
FileStates == {"missing", "empty", "recorded"}

\* path.basename(video)
basename(video) == video[Len(video)]

\* testInfo.outputPath()
outputPath == "/out/"

\* path.join(testInfo.outputPath(), `${path.basename(video)}.gif`)
gifPathOf(video) == <<outputPath, basename(video), ".gif">>

\* new DebugPlaywright({page, listen: false}): a further observer that registers
\* no listener.
newObserver(S) == Cardinality(DOMAIN S.dp) + 1

construct(S, page) ==
  LET o == newObserver(S) IN
  [S EXCEPT !.dp = [i \in DOMAIN S.dp \cup {o} |->
                      IF i = o THEN DebugPlaywright(page, FALSE, DefaultFlags) ELSE S.dp[i]]]

\* A conversion that reports success whatever the command did.
movieToGIFAlwaysTrue(S, t, template, video, gif, res) ==
  LET cmd == replace(replace(template, "{video}", video), "{gif}", gif)
      S1 == Emit(S, <<E(t, "convert", cmd)>>)
  IN  IF res = "ok" THEN [S |-> S1, ok |-> TRUE]
      ELSE [S |-> Emit(S1, <<E(t, "diag", "conversion")>>), ok |-> TRUE]

\* movieToGIF(template, video, gif) run by task t; res is how the command ends.
movieToGIF(S, t, template, video, gif, res) ==
  LET cmd == replace(replace(template, "{video}", video), "{gif}", gif)
      S1 == Emit(S, <<E(t, "convert", cmd)>>)
  IN  IF res = "ok" THEN [S |-> S1, ok |-> TRUE]
      ELSE [S |-> Emit(S1, <<E(t, "diag", "conversion")>>), ok |-> FALSE]

\* The hook as a task: it works for the page of the fixture and remembers the
\* test's status.
HookTask(page, status) ==
  Task(0, "afterEach", NoRequest, 0, DebugPlaywright(page, FALSE, DefaultFlags))
    @@ [test |-> status]

\* await context.close(): the call is made and the hook is suspended.
contextClose(S, t) == SetPc(Emit(S, <<E(t, "contextClose", S.tasks[t].cfg.page)>>), t, "closing")

\* The hook resumes when the promise of printScreenshot() is settled.
afterPrintScreenshot(S, t) == IF S.tasks[t].pc = "done" THEN contextClose(S, t) ELSE S

\* The hook up to its first await.
afterEachHandler(S, page, status) ==
  LET t == Len(S.tasks) + 1
      S0 == [S EXCEPT !.tasks = Append(@, HookTask(page, status))]
  IN
  IF failed(status)
  THEN LET o == newObserver(S0)
           S1 == construct(Emit(S0, <<E(t, "failureline", page)>>), page)
           S2 == [S1 EXCEPT !.tasks[t].o = o]
       IN  afterPrintScreenshot(printScreenshotStart(S2, o, t), t)
  ELSE contextClose(S0, t)

\* maybeConvertMovie(page, testInfo) up to its await; v is what page.video() answers.
maybeConvertMovie(S, t, v) ==
  LET S1 == Emit(S, <<E(t, "video", v)>>) IN
  IF v = "none"
  THEN SetPc(Emit(S1, <<E(t, "novideo", "No video")>>), t, "done")
  ELSE SetPc(Emit(S1, <<E(t, "videoPath", v)>>), t, "path")

\* A hook that asks for the video before the close of the context is over.
afterContextCloseUnordered(S, t, v) ==
  Emit(maybeConvertMovie(S, t, v), <<E(t, "contextClosed", S.tasks[t].cfg.page)>>)

\* The hook resumes once context.close() is over and calls maybeConvertMovie.
afterContextClose(S, t, v) ==
  maybeConvertMovie(Emit(S, <<E(t, "contextClosed", S.tasks[t].cfg.page)>>), t, v)

\* maybeConvertMovie resumes with the path of the video, and the hook with what
\* it returns.  state: what is on disk at the path; res: how the conversion
\* command ends; shown: how the renderer ends.
afterPath(S, t, video, state, res, shown) ==
  IF video = NoPath
  THEN SetPc(Emit(S, <<E(t, "novideo", "No path to video")>>), t, "done")
  ELSE
    LET S1 == Emit(S, <<E(t, "existsSync", [path |-> video, state |-> state])>>) IN
    IF state = "missing"
    THEN SetPc(Emit(S1, <<E(t, "stderr", "No movie exists")>>), t, "done")
    ELSE
      LET gifPath == gifPathOf(video)
          r == movieToGIF(S1, t, Template, video, gifPath, res)
      IN  IF r.ok
          THEN LET o == newObserver(r.S)
               IN  SetPc(printImage(construct(r.S, S.tasks[t].cfg.page), o, t, gifPath, shown),
                         t, "done")
          ELSE SetPc(r.S, t, "done")

\* The test runner calls the hook once the test is over.
HookStarts(p, status) ==
  /\ \A t \in DOMAIN tasks : tasks[t].ev # "afterEach"
  /\ Apply(afterEachHandler(Cur, p, status))
  /\ UNCHANGED <<listeners, closed, env, sent>>

HookWaitEnds(t, r) ==
  /\ tasks[t].ev = "afterEach" /\ tasks[t].pc = "wait"
  /\ r \in WaitOutcomes(tasks[t].cfg.page)
  /\ Apply(afterPrintScreenshot(afterWait(Cur, tasks[t].o, t, r), t))
  /\ UNCHANGED <<listeners, closed, env, sent>>

HookCaptureEnds(t, r, res) ==
  /\ tasks[t].ev = "afterEach" /\ tasks[t].pc = "capture"
  /\ r \in CaptureOutcomes(tasks[t].cfg.page)
  /\ Apply(afterPrintScreenshot(afterCapture(Cur, tasks[t].o, t, r, res), t))
  /\ UNCHANGED <<listeners, closed, env, sent>>

\* context.close() is over: a page still open was closed by it and emitted
\* 'close' on url, and the hook resumes.
ContextCloses(t, url, v) ==
  /\ tasks[t].ev = "afterEach" /\ tasks[t].pc = "closing"
  /\ LET p == tasks[t].cfg.page
         S1 == IF closed[p] THEN Cur ELSE emitClose(Cur, listeners[p], 1, url)
     IN  /\ closed' = [closed EXCEPT ![p] = TRUE]
         /\ Apply(afterContextClose(S1, t, v))
  /\ UNCHANGED <<listeners, env, sent>>

\* video.path() resolves.  A command run on an empty file fails.
PathResolves(t, video, state, res, shown) ==
  /\ tasks[t].ev = "afterEach" /\ tasks[t].pc = "path"
  /\ state = "empty" => res = "fail"
  /\ Apply(afterPath(Cur, t, video, state, res, shown))
  /\ UNCHANGED <<listeners, closed, env, sent>>

\* The flags of the observer the test attached to the page, as far as the close
\* listener and printScreenshot read them.
TeardownFlags == {[DefaultFlags EXCEPT !.screenshots = a, !.verbose = b] :
                    a \in BOOLEAN, b \in BOOLEAN}

\* The end of a test: the test may have closed the page itself, then the hook
\* runs.
NextTeardown ==
  \/ \E p \in Pages, url \in PageUrls : CloseEvent(p, url, MaxTasks)
  \/ \E p \in Pages, status \in TestStatuses : HookStarts(p, status)
  \/ \E t \in DOMAIN tasks, r \in PageOutcomes : HookWaitEnds(t, r)
  \/ \E t \in DOMAIN tasks, r \in PageOutcomes, res \in ExecOutcomes : HookCaptureEnds(t, r, res)
  \/ \E t \in DOMAIN tasks, url \in PageUrls, v \in Videos : ContextCloses(t, url, v)
  \/ \E t \in DOMAIN tasks, video \in VideoPaths, state \in FileStates,
        res \in ExecOutcomes, shown \in ExecOutcomes : PathResolves(t, video, state, res, shown)

SpecTeardown == InitWith(TeardownFlags) /\ [][NextTeardown]_vars

----------------------------------------------------------------------------
\* The renderer and its fallback inside tmux

\* The commands an observer is constructed with: the default, and a renderer
\* that is no imgcat.
Commands == {DEFAULT_COMMAND, <<"viu">>}

\* A file the caller of printImage names.
UserFile == [id |-> 0, extension |-> "gif"]

\* The test calls printImage(file) on an observer.
CallPrintImage(o, file, res, max) ==
  /\ Len(tasks) < max
  /\ LET t == Len(tasks) + 1
         S0 == [Cur EXCEPT !.tasks = Append(@, Task(o, "printImage", NoRequest, 0, dp[o]))]
     IN Apply(SetPc(printImage(S0, o, t, file, res), t, "done"))
  /\ UNCHANGED <<listeners, closed, env, sent>>

\* The flags the request listeners read to report an asset, the others at their
\* defaults.
RenderFlags == {[DefaultFlags EXCEPT !.logAssetRequests = a] : a \in BOOLEAN}

\* One listening observer on one open page, in every environment: inside tmux
\* or not, with any of the fallback renderers installed.
InitRender ==
  /\ \E f \in RenderFlags, c \in Commands :
       dp = [o \in {1} |-> [DebugPlaywright(1, TRUE, f) EXCEPT !.command = c]]
  /\ listeners = [p \in {1} |-> <<1>>]
  /\ closed = [p \in {1} |-> FALSE]
  /\ tasks = <<>>
  /\ trace = <<E(0, "adding", 1)>>
  /\ tmp = 0
  /\ env \in [TMUX : BOOLEAN, installed : SUBSET {"chafa", "viu"}]
  /\ sent = [p \in {1} |-> <<>>]

\* Request events and direct calls that end in printImage.
NextRender ==
  \/ \E p \in Pages, req \in Requests(1..MaxTasks) : RequestEvent(p, req, MaxTasks)
  \/ \E p \in Pages, i \in 1..MaxTasks : RequestFinishedEvent(p, i, MaxTasks)
  \/ \E o \in DOMAIN dp, res \in ExecOutcomes : CallPrintImage(o, UserFile, res, MaxTasks)
  \/ \E t \in DOMAIN tasks, r \in PageOutcomes : WaitEnds(t, r)
  \/ \E t \in DOMAIN tasks, r \in PageOutcomes, res \in ExecOutcomes : CaptureEnds(t, r, res)

SpecRender == InitRender /\ [][NextRender]_vars

----------------------------------------------------------------------------
\* Content rendering of image responses

\* Content-type headers that begin with image/jpeg: the bare type, and the type
\* followed by a parameter.  split('/') leaves the parameter in the second part.
JpegTypes == {ContentType(<<"image", "jpeg">>),
              ContentType(<<"image", "jpeg;charset=UTF-8">>)}

ContentHeaders == JpegTypes \cup {NullContentType, ContentType(<<"text", "html">>)}

\* formattedContent on, the other flags at their defaults or screenshots off.
ContentFlags == {[DefaultFlags EXCEPT !.formattedContent = TRUE, !.screenshots = b] :
                   b \in BOOLEAN}

\* Document responses on a page that stays open, and their continuations.
NextContent ==
  \/ \E p \in Pages, req \in {r \in Requests({0}) : r.rtype = "document"},
        status \in Statuses : ResponseEvent(p, req, status, MaxTasks)
  \/ \E t \in DOMAIN tasks, c \in ContentHeaders : HeaderResolves(t, c)
  \/ \E t \in DOMAIN tasks : DumpHeaderResolves(t)
  \/ \E t \in DOMAIN tasks, res \in ExecOutcomes : BodyResolves(t, res)
  \/ \E t \in DOMAIN tasks : TextResolves(t)

SpecContent == InitWith(ContentFlags) /\ [][NextContent]_vars

----------------------------------------------------------------------------
\* The text renderer: lynx and its output stream

\* Bound: chunks one lynx process writes to its standard output.
MaxChunks == 2

Chunks == {"a", "b"}

\* child.stdout.on('data', ...): the chunk is printed as it arrives.
onData(S, t, data) == Emit(S, <<E(t, "lynxout", data)>>)

\* child.on('error', ...): the failure to run lynx is reported.
onError(S, t) == Emit(S, <<E(t, "stderr", "Error from child process")>>)

\* Task t has spawned lynx.
Spawned(t) == \E i \in DOMAIN trace : trace[i].t = t /\ trace[i].k = "lynx"

\* The number of entries of kind k task t has in the trace.
CountOf(t, k) == Cardinality({i \in DOMAIN trace : trace[i].t = t /\ trace[i].k = k})

\* The lynx process of task t writes a chunk to its standard output.
LynxData(t, chunk) ==
  /\ Spawned(t) /\ CountOf(t, "stderr") = 0 /\ CountOf(t, "chunk") < MaxChunks
  /\ Apply(onData(Emit(Cur, <<E(t, "chunk", chunk)>>), t, chunk))
  /\ UNCHANGED <<listeners, closed, env, sent>>

\* lynx could not be run: the child emits 'error' and writes nothing.
LynxError(t) ==
  /\ Spawned(t) /\ CountOf(t, "stderr") = 0 /\ CountOf(t, "chunk") = 0
  /\ Apply(onError(Cur, t))
  /\ UNCHANGED <<listeners, closed, env, sent>>

\* Success responses of documents with formattedContent on, a page that may
\* close, and the output of lynx.
NextLynx ==
  \/ \E p \in Pages, req \in {r \in Requests({0}) : r.rtype = "document" /\ r.method = GET} :
        ResponseEvent(p, req, 200, MaxTasks)
  \/ \E p \in Pages : CloseEvent(p, PageUrl("https:", 0), MaxTasks)
  \/ \E t \in DOMAIN tasks : HeaderResolves(t, ContentType(<<"text", "html">>))
  \/ \E t \in DOMAIN tasks : DumpHeaderResolves(t)
  \/ \E t \in DOMAIN tasks : TextResolves(t)
  \/ \E t \in DOMAIN tasks : ReadRejects(t)
  \/ \E t \in DOMAIN tasks, chunk \in Chunks : LynxData(t, chunk)
  \/ \E t \in DOMAIN tasks : LynxError(t)

SpecLynx == InitWith(ContentFlags) /\ [][NextLynx]_vars

----------------------------------------------------------------------------
\* Construction of observers on the pages of a browser context

\* Bound: observers constructed per behaviour.
MaxObservers == 2

\* A constructor that registers the listeners whatever listen is.
registersAlways(listen) == TRUE

\* if (this.listen) this.addListener()
registers(listen) == listen

\* new DebugPlaywright({page, listen, ...f}): the fields are set and, if listen,
\* addListener prints its line.  The listeners themselves are kept per page.
constructor(S, page, listen, f) ==
  LET o == newObserver(S)
      S1 == [S EXCEPT !.dp = [i \in DOMAIN S.dp \cup {o} |->
                                IF i = o THEN DebugPlaywright(page, listen, f) ELSE S.dp[i]]]
  IN  IF registers(listen) THEN Emit(S1, <<E(0, "adding", o)>>) ELSE S1

\* addListener(): p.on('close' | 'request' | 'requestfinished' | 'response', ...)
addListener(ls, o, p) == [ls EXCEPT ![p] = Append(@, o)]

\* The test constructs an observer on page p.
Construct(p, listen, f) ==
  /\ Cardinality(DOMAIN dp) < MaxObservers
  /\ Apply(constructor(Cur, p, listen, f))
  /\ listeners' = IF registers(listen) THEN addListener(listeners, newObserver(Cur), p)
                  ELSE listeners
  /\ UNCHANGED <<closed, env, sent>>

\* A browser context with two open pages and no observer yet, inside tmux with
\* viu installed or outside tmux.
InitObservers ==
  /\ dp = <<>>
  /\ listeners = [p \in {1, 2} |-> <<>>]
  /\ closed = [p \in {1, 2} |-> FALSE]
  /\ tasks = <<>>
  /\ trace = <<>>
  /\ tmp = 0
  /\ env \in {[TMUX |-> TRUE, installed |-> {"viu"}], [TMUX |-> FALSE, installed |-> {}]}
  /\ sent = [p \in {1, 2} |-> <<>>]

\* Observers are constructed while the pages emit their events.
NextObservers ==
  \/ \E p \in Pages, listen \in BOOLEAN : Construct(p, listen, DefaultFlags)
  \/ \E p \in Pages, req \in {r \in Requests({1}) : r.method = GET} :
        RequestEvent(p, req, MaxTasks)
  \/ \E p \in Pages : RequestFinishedEvent(p, 1, MaxTasks)
  \/ \E p \in Pages, req \in {r \in Requests({0}) : r.method = GET /\ r.rtype = "document"} :
        ResponseEvent(p, req, 200, MaxTasks)
  \/ \E p \in Pages : CloseEvent(p, PageUrl("https:", 0), MaxTasks)
  \/ \E t \in DOMAIN tasks : WaitEnds(t, "ok")
  \/ \E t \in DOMAIN tasks, res \in ExecOutcomes : CaptureEnds(t, "ok", res)
  \/ \E t \in DOMAIN tasks : HeaderResolves(t, ContentType(<<"text", "html">>))

SpecObservers == InitObservers /\ [][NextObservers]_vars

----------------------------------------------------------------------------
\* printScreenshot with the outcome of every page operation on record

\* waitForLoadState settles with r and printScreenshot resumes.
WaitSettles(t, r) ==
  /\ tasks[t].pc = "wait" /\ r \in WaitOutcomes(PageOf(t))
  /\ Apply(afterWait(Emit(Cur, <<E(t, "settled", r)>>), tasks[t].o, t, r))
  /\ UNCHANGED <<listeners, closed, env, sent>>

\* page.screenshot settles with r and printScreenshot resumes.
CaptureSettles(t, r, res) ==
  /\ tasks[t].pc = "capture" /\ r \in CaptureOutcomes(PageOf(t))
  /\ Apply(afterCapture(Emit(Cur, <<E(t, "settled", r)>>), tasks[t].o, t, r, res))
  /\ UNCHANGED <<listeners, closed, env, sent>>

\* The flags printScreenshot reads, the others at their defaults.
ScreenshotFlags == {[DefaultFlags EXCEPT !.verbose = a, !.fullPage = b] :
                      a \in BOOLEAN, b \in BOOLEAN}

\* Screenshots on demand and for request events, on a page that may close.
NextScreenshot ==
  \/ \E o \in DOMAIN dp : CallPrintScreenshot(o, MaxTasks)
  \/ \E p \in Pages, req \in {r \in Requests(1..MaxTasks) : r.rtype = "document"} :
        RequestEvent(p, req, MaxTasks)
  \/ \E p \in Pages, i \in 1..MaxTasks : RequestFinishedEvent(p, i, MaxTasks)
  \/ \E p \in Pages : CloseEvent(p, PageUrl("https:", 0), MaxTasks)
  \/ \E t \in DOMAIN tasks, r \in PageOutcomes : WaitSettles(t, r)
  \/ \E t \in DOMAIN tasks, r \in PageOutcomes, res \in ExecOutcomes : CaptureSettles(t, r, res)

SpecScreenshot == InitWith(ScreenshotFlags) /\ [][NextScreenshot]_vars

----------------------------------------------------------------------------
\* The session log and its dump on demand

\* Bound: handler invocations and printLogs calls per behaviour.
MaxLogTasks == 3

\* The test calls printLogs() on an observer.
CallPrintLogs(o, max) ==
  /\ Len(tasks) < max
  /\ LET t == Len(tasks) + 1
         S0 == [Cur EXCEPT !.tasks = Append(@, Task(o, "printLogs", NoRequest, 0, dp[o]))]
     IN Apply(printLogs(S0, o, t))
  /\ UNCHANGED <<listeners, closed, env, sent>>

\* Document responses, dumps of the log on demand and the close of the page.
NextLog ==
  \/ \E p \in Pages, req \in {r \in Requests({0}) : r.rtype = "document"},
        status \in Statuses : ResponseEvent(p, req, status, MaxLogTasks)
  \/ \E o \in DOMAIN dp : CallPrintLogs(o, MaxLogTasks)
  \/ \E p \in Pages : CloseEvent(p, PageUrl("https:", 0), MaxLogTasks)
  \/ \E t \in DOMAIN tasks : HeaderResolves(t, ContentType(<<"text", "html">>))

SpecLog == InitWith({DefaultFlags}) /\ [][NextLog]_vars

----------------------------------------------------------------------------
\* Flags assigned after construction

\* dp.screenshots = false
SetScreenshotsOff(o) ==
  /\ dp[o].screenshots
  /\ dp' = [dp EXCEPT ![o].screenshots = FALSE]
  /\ UNCHANGED <<listeners, closed, tasks, trace, tmp, env, sent>>

\* dp.formattedContent = true
SetFormattedContentOn(o) ==
  /\ ~dp[o].formattedContent
  /\ dp' = [dp EXCEPT ![o].formattedContent = TRUE]
  /\ UNCHANGED <<listeners, closed, tasks, trace, tmp, env, sent>>

\* An observer constructed with the defaults whose flags the test then assigns,
\* while the page emits request and response events and may close.
NextFlags ==
  \/ \E o \in DOMAIN dp : SetScreenshotsOff(o)
  \/ \E o \in DOMAIN dp : SetFormattedContentOn(o)
  \/ \E p \in Pages, req \in {r \in Requests(1..MaxTasks) : r.rtype = "document" /\ r.method = GET} :
        RequestEvent(p, req, MaxTasks)
  \/ \E p \in Pages, i \in 1..MaxTasks : RequestFinishedEvent(p, i, MaxTasks)
  \/ \E p \in Pages, req \in {r \in Requests({0}) : r.rtype = "document" /\ r.method = GET},
        status \in {200, 404} : ResponseEvent(p, req, status, MaxTasks)
  \/ \E p \in Pages : CloseEvent(p, PageUrl("https:", 0), MaxTasks)
  \/ \E t \in DOMAIN tasks, r \in {"ok", "otherError"} : WaitEnds(t, r)
  \/ \E t \in DOMAIN tasks, r \in {"ok", "otherError"}, res \in ExecOutcomes :
        CaptureEnds(t, r, res)
  \/ \E t \in DOMAIN tasks : HeaderResolves(t, ContentType(<<"text", "html">>))
  \/ \E t \in DOMAIN tasks : DumpHeaderResolves(t)
  \/ \E t \in DOMAIN tasks : TextResolves(t)
  \/ \E t \in DOMAIN tasks : ReadRejects(t)

SpecFlags == InitWith({DefaultFlags}) /\ [][NextFlags]_vars

----------------------------------------------------------------------------
\* The response classifier on its own

\* Bound: the largest status code classified.
MaxStatus == 700

StatusCodes == 0..MaxStatus

\* A response with any status code is about to be classified.
InitClassifier ==
  /\ dp = <<>>
  /\ listeners = [p \in {1} |-> <<>>]
  /\ closed = [p \in {1} |-> FALSE]
  /\ tasks = <<>>
  /\ \E code \in StatusCodes : trace = <<E(0, "status", code)>>
  /\ tmp = 0
  /\ env = [TMUX |-> FALSE, installed |-> {}]
  /\ sent = [p \in {1} |-> <<>>]

\* responseStatus(response) is evaluated.
Classify ==
  /\ Len(trace) = 1
  /\ trace' = Append(trace, E(0, "responseStatus", responseStatus(trace[1].a)))
  /\ UNCHANGED <<dp, listeners, closed, tasks, tmp, env, sent>>

NextClassifier == Classify

SpecClassifier == InitClassifier /\ [][NextClassifier]_vars

----------------------------------------------------------------------------
\* addListener called again on a constructed observer

\* Bound: registrations of one observer's listeners on its page.
MaxRegistrations == 2

\* dp.addListener(): the line is printed and the four listeners are registered
\* on the observer's page once more.
CallAddListener(o) ==
  /\ Len(listeners[dp[o].page]) < MaxRegistrations
  /\ Apply(Emit(Cur, <<E(0, "adding", o)>>))
  /\ listeners' = addListener(listeners, o, dp[o].page)
  /\ UNCHANGED <<closed, env, sent>>

\* The test may call addListener again before the page emits its events.
NextRelisten ==
  \/ \E o \in DOMAIN dp : CallAddListener(o)
  \/ \E p \in Pages, req \in {r \in Requests(1..MaxTasks) : r.rtype = "document" /\ r.method = GET} :
        RequestEvent(p, req, MaxTasks)
  \/ \E p \in Pages, i \in 1..MaxTasks : RequestFinishedEvent(p, i, MaxTasks)
  \/ \E p \in Pages, req \in {r \in Requests({0}) : r.rtype = "document" /\ r.method = GET},
        status \in Statuses : ResponseEvent(p, req, status, MaxTasks)
  \/ \E p \in Pages : CloseEvent(p, PageUrl("https:", 0), MaxTasks)
  \/ \E t \in DOMAIN tasks : WaitEnds(t, "ok")
  \/ \E t \in DOMAIN tasks, res \in ExecOutcomes : CaptureEnds(t, "ok", res)
  \/ \E t \in DOMAIN tasks : HeaderResolves(t, ContentType(<<"text", "html">>))
  \/ \E t \in DOMAIN tasks : ReadRejects(t)

SpecRelisten == InitWith({DefaultFlags}) /\ [][NextRelisten]_vars

----------------------------------------------------------------------------
\* listen turned off on a listening observer

\* dp.listen = false
SetListenOff(o) ==
  /\ dp[o].listen
  /\ dp' = [dp EXCEPT ![o].listen = FALSE]
  /\ UNCHANGED <<listeners, closed, tasks, trace, tmp, env, sent>>

\* Asset requests are reported and content is rendered or not.
ListenFlags == {[DefaultFlags EXCEPT !.logAssetRequests = TRUE, !.formattedContent = a] :
                  a \in BOOLEAN}

\* The test turns listen off at any moment while the page emits its events.
NextListenOff ==
  \/ \E o \in DOMAIN dp : SetListenOff(o)
  \/ \E p \in Pages, req \in Requests(1..MaxTasks) : RequestEvent(p, req, MaxTasks)
  \/ \E p \in Pages, i \in 1..MaxTasks : RequestFinishedEvent(p, i, MaxTasks)
  \/ \E p \in Pages, req \in {r \in Requests({0}) : r.method = GET}, status \in Statuses :
        ResponseEvent(p, req, status, MaxTasks)
  \/ \E p \in Pages : CloseEvent(p, PageUrl(DataHtmlPrefix, 16), MaxTasks)
  \/ \E t \in DOMAIN tasks : WaitEnds(t, "ok")
  \/ \E t \in DOMAIN tasks, res \in ExecOutcomes : CaptureEnds(t, "ok", res)
  \/ \E t \in DOMAIN tasks : HeaderResolves(t, ContentType(<<"text", "html">>))
  \/ \E t \in DOMAIN tasks : DumpHeaderResolves(t)
  \/ \E t \in DOMAIN tasks : TextResolves(t)
  \/ \E t \in DOMAIN tasks : ReadRejects(t)

SpecListenOff == InitWith(ListenFlags) /\ [][NextListenOff]_vars

----------------------------------------------------------------------------
\* Screenshots and renderer calls next to the page's events and the hook

\* The hook starts while there is room for it under the bound.
FrameHookStarts(p, status) == Len(tasks) < MaxTasks /\ HookStarts(p, status)

\* The flags printScreenshot reads.
FrameFlags == {[DefaultFlags EXCEPT !.verbose = b] : b \in BOOLEAN}

\* The page emits requests and redirect responses, the test calls printScreenshot
\* and printImage, the page may close, and the hook runs at the end.
NextFrame ==
  \/ \E p \in Pages, req \in {r \in Requests({1}) : r.rtype = "document" /\ r.method = GET} :
        RequestEvent(p, req, MaxTasks)
  \/ \E p \in Pages, req \in {r \in Requests({0}) : r.rtype = "document" /\ r.method = GET} :
        ResponseEvent(p, req, 302, MaxTasks)
  \/ \E p \in Pages : CloseEvent(p, PageUrl("https:", 0), MaxTasks)
  \/ \E o \in DOMAIN dp : CallPrintScreenshot(o, MaxTasks)
  \/ \E o \in DOMAIN dp, res \in ExecOutcomes : CallPrintImage(o, UserFile, res, MaxTasks)
  \/ \E t \in DOMAIN tasks, r \in {"ok", "closedError"} :
        tasks[t].ev # "afterEach" /\ WaitEnds(t, r)
  \/ \E t \in DOMAIN tasks, r \in PageOutcomes, res \in ExecOutcomes :
        tasks[t].ev # "afterEach" /\ CaptureEnds(t, r, res)
  \/ \E p \in Pages : FrameHookStarts(p, "failed")
  \/ \E t \in DOMAIN tasks : HookWaitEnds(t, "ok")
  \/ \E t \in DOMAIN tasks, r \in {"ok", "closedError"} : HookCaptureEnds(t, r, "ok")
  \/ \E t \in DOMAIN tasks : ContextCloses(t, PageUrl("https:", 0), "video")
  \/ \E t \in DOMAIN tasks, shown \in ExecOutcomes :
        PathResolves(t, <<"/videos/", "page.webm">>, "recorded", "ok", shown)

SpecFrame == InitWith(FrameFlags) /\ [][NextFrame]_vars

----------------------------------------------------------------------------
\* printScreenshot when every page operation ends

\* Every awaited waitForLoadState and page.screenshot settles in the end; the
\* renderer runs inside the step that follows the capture.
PageOperationsEnd ==
  \A t \in 1..MaxTasks :
    /\ WF_vars(t \in DOMAIN tasks /\ \E r \in PageOutcomes : WaitSettles(t, r))
    /\ WF_vars(/\ t \in DOMAIN tasks
               /\ \E r \in PageOutcomes, res \in ExecOutcomes : CaptureSettles(t, r, res))

\* Calls of printScreenshot, by the test and for request events, on a page that
\* may close.
NextScreenshotFair ==
  \/ \E o \in DOMAIN dp : CallPrintScreenshot(o, MaxTasks)
  \/ \E p \in Pages, req \in {r \in Requests(1..MaxTasks) : r.rtype = "document" /\ r.method = GET} :
        RequestEvent(p, req, MaxTasks)
  \/ \E p \in Pages : CloseEvent(p, PageUrl("https:", 0), MaxTasks)
  \/ \E t \in DOMAIN tasks, r \in PageOutcomes : WaitSettles(t, r)
  \/ \E t \in DOMAIN tasks, r \in PageOutcomes, res \in ExecOutcomes : CaptureSettles(t, r, res)

SpecScreenshotFair ==
  InitWith(FrameFlags) /\ [][NextScreenshotFair]_vars /\ PageOperationsEnd

----------------------------------------------------------------------------
\* The conversion command on its own

\* Bound: pieces of a command template.
MaxTemplateLen == 3

\* The templates that contain both placeholders.
Templates ==
  {s \in UNION {[1..n -> {"ffmpeg -i ", "{video}", "{gif}"}] : n \in 2..MaxTemplateLen} :
     (\E i \in DOMAIN s : s[i] = "{video}") /\ (\E i \in DOMAIN s : s[i] = "{gif}")}

\* Paths of a video and of a GIF: plain ones, and names that hold the text of a
\* placeholder or a dollar pattern.
CommandVideos == {<<"/videos/", "page.webm">>, <<"/videos/", "{gif}", ".webm">>,
                  <<"/videos/", "$&", ".webm">>}
CommandGifs == {<<"/out/", "page.gif">>, <<"/out/", "{video}", ".gif">>}

\* movieToGIF is about to be called with any template and any two paths.
InitCommand ==
  /\ dp = <<>>
  /\ listeners = [p \in {1} |-> <<>>]
  /\ closed = [p \in {1} |-> FALSE]
  /\ tasks = <<>>
  /\ \E template \in Templates, video \in CommandVideos, gif \in CommandGifs :
       trace = <<E(0, "movieToGIF", [template |-> template, video |-> video, gif |-> gif])>>
  /\ tmp = 0
  /\ env = [TMUX |-> FALSE, installed |-> {}]
  /\ sent = [p \in {1} |-> <<>>]

\* movieToGIF(template, video, gif) runs; res is how the command ends.
CallMovieToGIF(res) ==
  /\ Len(trace) = 1
  /\ Apply(movieToGIF(Cur, 0, trace[1].a.template, trace[1].a.video, trace[1].a.gif, res).S)
  /\ UNCHANGED <<listeners, closed, env, sent>>

NextCommand == \E res \in ExecOutcomes : CallMovieToGIF(res)

SpecCommand == InitCommand /\ [][NextCommand]_vars

----------------------------------------------------------------------------
\* Properties

CallKinds == {"which", "exec", "wait", "capture", "captured", "writeFile", "lynx",
              "header", "body", "text"}
AllKinds == OutputKinds \cup CallKinds

\* What content rendering does: the body or text read, the file written, the
\* renderer or lynx run.
RenderKinds == {"body", "text", "writeFile", "exec", "rendered", "lynx"}

\* What a screenshot does: the readiness wait, the capture, the renderer.
ScreenshotKinds == {"wait", "capture", "captured", "exec", "rendered"}

\* The trace entries of task t with a kind in K, in order.
Of(t, K) == SelectSeq(trace, LAMBDA e : e.t = t /\ e.k \in K)

Finished(t) == tasks[t].pc \in {"done", "rejected"}

\* A response event a listening observer handled for a primary document.
IsDocumentResponse(k) ==
  k.ev = "response" /\ k.req.rtype = "document" /\ k.cfg.listen

\* A 'request' event a listening observer handled for a primary document.
IsDocumentRequest(k) ==
  k.ev = "request" /\ k.req.rtype = "document" /\ k.cfg.listen

\* The texts a session-log entry is expected to hold.
StatusText(status) ==
  CASE status = 200 -> <<"2", "0", "0">>
    [] status = 302 -> <<"3", "0", "2">>
    [] status = 404 -> <<"4", "0", "4">>
MethodText(method) ==
  IF method = GET THEN <<"G", "E", "T", " ">> ELSE <<"P", "O", "S", "T">>
ExpectedEntry(k) ==
  <<StatusText(k.status), MethodText(k.req.method), <<k.req.url.pathname, k.req.url.search>>>>

\* The expected entries for the document responses of observer o whose status
\* satisfies P, in the order the responses were received.
ExpectedLog(o, P(_)) ==
  LET picked == SelectSeq(tasks, LAMBDA k : k.o = o /\ IsDocumentResponse(k) /\ P(k.status))
  IN  [i \in 1..Len(picked) |-> ExpectedEntry(picked[i])]

IsRedirect(status) == status >= 300 /\ status < 400
NotRedirect(status) == ~IsRedirect(status)
AnyStatus(status) == TRUE

\* What a close handler is expected to print for the logger.
ExpectedDump(t, logger) ==
  [i \in 1..Len(logger) |->
     E(t, "logline", <<logger[i][1], " ", logger[i][2], " ", logger[i][3]>>)]

\* C1: a response with a status in [300,400) emits no status line and starts no
\* content rendering, whatever the six flags are.
C1_RedirectSilent ==
  \A t \in DOMAIN tasks :
    (tasks[t].ev = "response" /\ IsRedirect(tasks[t].status))
      => Of(t, {"status", "header"} \cup RenderKinds) = <<>>

\* A redirect of a document was handled and logged with formattedContent set.
C1_Witness ==
  \E t \in DOMAIN tasks :
    /\ IsDocumentResponse(tasks[t]) /\ IsRedirect(tasks[t].status)
    /\ tasks[t].cfg.formattedContent /\ tasks[t].cfg.verbose
    /\ Len(dp[tasks[t].o].logger) >= 1

\* C2 as stated: the session log holds exactly the non-redirect document
\* responses, in the order received.
C2_LogHasNoRedirect ==
  \A o \in DOMAIN dp : dp[o].logger = ExpectedLog(o, NotRedirect)

\* C2 as amended: the session log holds one (status, method, path+query) entry for
\* every document response handled, redirects included, in the order received, and
\* the close handler prints exactly these entries in that order.
C2_LogHasEveryDocumentResponse ==
  \A o \in DOMAIN dp :
    /\ dp[o].logger = ExpectedLog(o, AnyStatus)
    /\ \A t \in DOMAIN tasks :
         (tasks[t].o = o /\ tasks[t].ev = "close")
           => Of(t, {"logline"}) = ExpectedDump(t, ExpectedLog(o, AnyStatus))

\* A redirect and then an error response of a document are both in the log.
C2_Witness ==
  /\ Len(tasks) = 2
  /\ IsDocumentResponse(tasks[1]) /\ tasks[1].status = 302
  /\ IsDocumentResponse(tasks[2]) /\ tasks[2].status = 404
  /\ Len(dp[1].logger) = 2

\* The first 'request' event observer o handled.
IsFirstRequestEvent(t) ==
  /\ tasks[t].ev = "request"
  /\ \A u \in 1..(t - 1) : ~(tasks[u].ev = "request" /\ tasks[u].o = tasks[t].o)

\* C3 as stated: no event of the first request observed (its 'request', its
\* 'requestfinished') emits a report line or starts a screenshot.
C3_FirstRequestSilent ==
  \A t \in DOMAIN tasks : \A u \in DOMAIN tasks :
    (/\ IsFirstRequestEvent(t)
     /\ tasks[u].o = tasks[t].o
     /\ tasks[u].ev \in {"request", "requestfinished"}
     /\ tasks[u].req.id = tasks[t].req.id)
      => Of(u, {"report", "postparams"} \cup ScreenshotKinds) = <<>>

\* The first 'request' event a listening observer handled for a document.
IsFirstDocumentRequest(t) ==
  /\ IsDocumentRequest(tasks[t])
  /\ \A u \in 1..(t - 1) : ~(IsDocumentRequest(tasks[u]) /\ tasks[u].o = tasks[t].o)

\* C3 as amended: the 'request' event of the first document-type request emits
\* nothing and starts no screenshot, whatever the flags are.
C3_FirstDocumentRequestSilent ==
  \A t \in DOMAIN tasks :
    IsFirstDocumentRequest(t) => (Of(t, AllKinds) = <<>> /\ tasks[t].pc = "done")

\* The first document request was counted, with screenshots and asset logging on.
C3_Witness ==
  \E t \in DOMAIN tasks :
    /\ IsFirstDocumentRequest(t)
    /\ tasks[t].cfg.screenshots /\ tasks[t].cfg.logAssetRequests
    /\ tasks[t].n = 1

\* What C4 promises of the 'request' event t.
ReportedAndCaptured(t) ==
  /\ Len(Of(t, {"report"})) = 1
  /\ (Of(t, {"wait"}) # <<>>) <=> tasks[t].cfg.screenshots

C5_NoHandlerRejects ==
  \A t \in DOMAIN tasks : tasks[t].pc # "rejected"

\* A printScreenshot() call made on a page that was already closed.
IsCallOnClosedPage(k) == k.ev = "printScreenshot" /\ k.wasClosed

\* C6: printScreenshot on a closed page with verbose off prints nothing, raises
\* nothing and runs no renderer, whatever the page operations raise.
C6_ClosedPageQuiet ==
  \A t \in DOMAIN tasks :
    (IsCallOnClosedPage(tasks[t]) /\ ~tasks[t].cfg.verbose)
      => /\ Of(t, OutputKinds) = <<>>
         /\ Of(t, {"exec"}) = <<>>
         /\ tasks[t].pc # "rejected"

\* C7: printScreenshot on a closed page with verbose on prints one diagnostic
\* line and does nothing else: no wait, no capture, no file, no renderer.
C7_ClosedPageVerbose ==
  \A t \in DOMAIN tasks :
    (IsCallOnClosedPage(tasks[t]) /\ tasks[t].cfg.verbose)
      => /\ Of(t, AllKinds) = <<E(t, "diag", "page is already closed")>>
         /\ tasks[t].pc = "done"
         /\ tasks[t].file = NoFile

\* printScreenshot was called on a closed page with verbose on.
C7_Witness ==
  \E t \in DOMAIN tasks : IsCallOnClosedPage(tasks[t]) /\ tasks[t].cfg.verbose

\* C8: a finished document response with status >= 400 has printed a status
\* line marked as an error and is in the log, and nothing was rendered for it.
C8_ErrorResponseReported ==
  \A t \in DOMAIN tasks :
    (IsDocumentResponse(tasks[t]) /\ tasks[t].status >= 400 /\ Finished(t))
      => /\ \E i \in DOMAIN trace :
              trace[i].t = t /\ trace[i].k = "status" /\ trace[i].a.mark = "poo"
         /\ \E i \in DOMAIN dp[tasks[t].o].logger :
              dp[tasks[t].o].logger[i] = ExpectedEntry(tasks[t])
         /\ Of(t, RenderKinds) = <<>>

\* C9: a finished document response with status < 300 has printed exactly one
\* status line, with its status code, its method and its URL.
C9_SuccessResponseReported ==
  \A t \in DOMAIN tasks :
    (IsDocumentResponse(tasks[t]) /\ tasks[t].status < 300 /\ Finished(t))
      => /\ Len(Of(t, {"status"})) = 1
         /\ LET line == Of(t, {"status"})[1].a IN
              /\ SubSeq(line.status, 1, 3) = StatusText(tasks[t].status)
              /\ line.method = MethodText(tasks[t].req.method)
              /\ line.url = tasks[t].req.url

\* C10: a response for anything but a document prints nothing, renders nothing
\* and leaves the session log as it is, whatever its status and the flags.
C10_AssetResponseIgnored ==
  /\ \A t \in DOMAIN tasks :
       (tasks[t].ev = "response" /\ tasks[t].req.rtype # "document")
         => (Of(t, AllKinds) = <<>> /\ tasks[t].pc = "done")
  /\ \A o \in DOMAIN dp :
       Len(dp[o].logger) =
         Cardinality({t \in DOMAIN tasks : tasks[t].o = o /\ IsDocumentResponse(tasks[t])})

\* An image response with status 200 was handled with formattedContent set, next
\* to a document response.
C10_Witness ==
  \E t \in DOMAIN tasks : \E u \in DOMAIN tasks :
    /\ tasks[t].ev = "response" /\ tasks[t].req.rtype = "image"
    /\ tasks[t].status = 200 /\ tasks[t].cfg.formattedContent
    /\ IsDocumentResponse(tasks[u])

----------------------------------------------------------------------------
\* The teardown hook

IsHook(k) == k.ev = "afterEach"

\* The kinds of the steps of a screenshot attempt before the renderer.
AttemptKinds == {"wait", "capture", "captured"}

\* The kinds of the hook's dealings with the video.
VideoKinds == {"video", "videoPath", "existsSync", "convert"}

\* What hook t did after context.close() was over.
HookTail(t) ==
  IF \E i \in DOMAIN trace : trace[i].t = t /\ trace[i].k = "contextClosed"
  THEN LET c == CHOOSE i \in DOMAIN trace : trace[i].t = t /\ trace[i].k = "contextClosed"
       IN  SelectSeq(SubSeq(trace, c + 1, Len(trace)), LAMBDA e : e.t = t)
  ELSE <<>>

Has(s, K) == \E i \in DOMAIN s : s[i].k \in K

\* C11: a hook run for a failed test makes exactly one screenshot attempt (one
\* readiness wait, at most one capture), whatever the screenshots flag of the
\* observer attached to the page; a hook run for any other status makes none.
C11_OneForcedScreenshot ==
  \A t \in DOMAIN tasks :
    IsHook(tasks[t]) =>
      IF tasks[t].test = "failed"
      THEN /\ Len(Of(t, {"failureline"})) = 1
           /\ Len(Of(t, {"wait"})) = 1
           /\ Len(Of(t, {"capture"})) <= 1
      ELSE Of(t, {"failureline"} \cup AttemptKinds) = <<>>

\* The hook of a failed test captured the page of an observer configured with
\* screenshots off, and ran to its end.
C11_Witness ==
  \E t \in DOMAIN tasks :
    /\ IsHook(tasks[t]) /\ tasks[t].test = "failed" /\ tasks[t].pc = "done"
    /\ ~dp[1].screenshots
    /\ Len(Of(t, {"captured"})) = 1

\* C12: the hook asks for the video, checks the file and runs the conversion
\* only after context.close() is over, and it starts context.close() only after
\* the forced screenshot attempt of a failed test is over.
C12_CloseBeforeVideo ==
  \A t \in DOMAIN tasks : \A j \in DOMAIN trace :
    (IsHook(tasks[t]) /\ trace[j].t = t) =>
      /\ trace[j].k \in VideoKinds =>
           \E i \in 1..(j - 1) : trace[i].t = t /\ trace[i].k = "contextClosed"
      /\ trace[j].k = "contextClosed" =>
           \E i \in 1..(j - 1) : trace[i].t = t /\ trace[i].k = "contextClose"
      /\ trace[j].k = "contextClose" =>
           /\ tasks[t].test = "failed" =>
                \E i \in 1..(j - 1) : trace[i].t = t /\ trace[i].k = "wait"
           /\ \A i \in (j + 1)..Len(trace) :
                trace[i].t = t => trace[i].k \notin AttemptKinds

\* The hook of a failed test captured the page, closed the context and ran the
\* conversion command.
C12_Witness ==
  \E t \in DOMAIN tasks :
    /\ IsHook(tasks[t]) /\ tasks[t].test = "failed"
    /\ Len(Of(t, {"captured"})) = 1
    /\ Len(Of(t, {"convert"})) = 1

\* The page has no video recording.
NoVideo(t) == Has(HookTail(t), {"novideo"})

\* The file at the video's path is a zero-byte placeholder.
ZeroByte(t) ==
  \E i \in DOMAIN HookTail(t) :
    HookTail(t)[i].k = "existsSync" /\ HookTail(t)[i].a.state = "empty"

\* C13: with no video recording or a zero-byte video file, the hook runs no
\* conversion command and no renderer, emits no failure diagnostic and completes.
C13_NoVideoNoOp ==
  \A t \in DOMAIN tasks :
    (IsHook(tasks[t]) /\ tasks[t].pc = "done" /\ (NoVideo(t) \/ ZeroByte(t)))
      => ~Has(HookTail(t), {"convert", "exec", "diag", "stderr"})

\* The video file exists.
VideoExists(t) ==
  \E i \in DOMAIN HookTail(t) :
    HookTail(t)[i].k = "existsSync" /\ HookTail(t)[i].a.state # "missing"

ConversionFailed(t) ==
  \E i \in DOMAIN HookTail(t) : HookTail(t)[i] = E(t, "diag", "conversion")

Converted(t) == Has(HookTail(t), {"convert"}) /\ ~ConversionFailed(t)

\* The renderer was run on the animation made from the video.
RenderedGIF(t) ==
  \E i \in DOMAIN HookTail(t) : \E v \in VideoPaths \ {NoPath} :
    HookTail(t)[i].k = "exec" /\ HookTail(t)[i].a.file = gifPathOf(v)

\* C14: a finished hook has run the renderer on the animation iff the video
\* exists and the conversion command succeeded; a failed conversion leaves one
\* diagnostic line and no rendering, and the hook never raises.
C14_RenderIffConverted ==
  \A t \in DOMAIN tasks :
    IsHook(tasks[t]) =>
      /\ tasks[t].pc # "rejected"
      /\ tasks[t].pc = "done" =>
           /\ RenderedGIF(t) <=> (VideoExists(t) /\ Converted(t))
           /\ Has(HookTail(t), {"exec"}) => RenderedGIF(t)
           /\ ConversionFailed(t) =>
                /\ Len(SelectSeq(HookTail(t), LAMBDA e : e.k = "diag")) = 1
                /\ ~Has(HookTail(t), {"exec", "rendered"})

\* The hook converted a recorded video and the renderer showed the animation.
C14_Witness ==
  \E t \in DOMAIN tasks :
    /\ IsHook(tasks[t]) /\ tasks[t].pc = "done"
    /\ RenderedGIF(t) /\ Has(HookTail(t), {"rendered"})

----------------------------------------------------------------------------
\* The renderer

\* What the step being taken appended to the trace.
Appended == SubSeq(trace', Len(trace) + 1, Len(trace'))

\* The arguments of the entries of kind k task t appended in this step.
AppendedBy(t, k) ==
  LET es == SelectSeq(Appended, LAMBDA e : e.t = t /\ e.k = k)
  IN  [i \in 1..Len(es) |-> es[i].a]

\* Task t ran printImage in this step and the renderer command failed.
RendererFailed(t) == \E i \in DOMAIN Appended : Appended[i] = E(t, "diag", "renderer")

\* C15: a step in which the renderer command fails prints exactly one diagnostic
\* line, as the last thing printImage does, and returns normally; it leaves the
\* observer's request counter, its session log, its flags and the listeners of
\* the page as they were.
C15_RendererFailureContained ==
  [][\A t \in DOMAIN tasks' :
       RendererFailed(t) =>
         LET o == tasks'[t].o IN
         /\ Len(AppendedBy(t, "diag")) = 1
         /\ Appended[Len(Appended)] = E(t, "diag", "renderer")
         /\ AppendedBy(t, "rendered") = <<>>
         /\ tasks'[t].pc = "done"
         /\ dp'[o].requestCount = dp[o].requestCount
         /\ dp'[o].logger = dp[o].logger
         /\ [dp'[o] EXCEPT !.command = dp[o].command] = dp[o]
         /\ listeners' = listeners]_vars

\* A renderer failed, and a request event that arrived afterwards on the same
\* observer was reported.
C15_Witness ==
  \E i \in DOMAIN trace : \E j \in DOMAIN trace :
    /\ i < j
    /\ trace[i].k = "diag" /\ trace[i].a = "renderer"
    /\ trace[j].k = "report" /\ trace[j].t > trace[i].t
    /\ tasks[trace[j].t].ev = "request"
    /\ tasks[trace[j].t].o = tasks[trace[i].t].o

\* What the claimed fallback does for a command, given the programs installed:
\* the programs probed, the notices printed and the command executed.
ExpectedFallback(command, installed) ==
  IF "chafa" \in installed
  THEN [probed |-> <<"chafa">>, notices |-> <<"chafa">>, command |-> <<"chafa">>]
  ELSE IF "viu" \in installed
  THEN [probed |-> <<"chafa", "viu">>, notices |-> <<"viu">>, command |-> <<"viu">>]
  ELSE [probed |-> <<"chafa", "viu">>, notices |-> <<>>, command |-> command]

\* C16: when printImage runs with an imgcat command inside tmux, it probes chafa
\* then viu, stops at the first one found, prints one notice for it and runs it;
\* a missing chafa does not stop the probe of viu; with neither found it prints
\* no notice and runs the original command.
C16_FallbackOrder ==
  [][\A t \in DOMAIN tasks' :
       LET o == tasks'[t].o IN
       (/\ AppendedBy(t, "exec") # <<>>
        /\ includes(dp[o].command, "imgcat") /\ env.TMUX)
         => LET x == ExpectedFallback(dp[o].command, env.installed) IN
            /\ AppendedBy(t, "which") = x.probed
            /\ AppendedBy(t, "notice") = x.notices
            /\ Len(AppendedBy(t, "exec")) = 1
            /\ AppendedBy(t, "exec")[1].command = x.command
            /\ dp'[o].command = x.command]_vars

\* Inside tmux with only viu installed, an imgcat command fell back to viu after
\* the probe of chafa failed.
C16_Witness ==
  /\ env.TMUX /\ env.installed = {"viu"}
  /\ dp[1].command = <<"viu">>
  /\ \E i \in DOMAIN trace : \E j \in DOMAIN trace :
       /\ i < j
       /\ trace[i].k = "stderr" /\ trace[i].a = "chafa"
       /\ trace[j].k = "notice" /\ trace[j].a = "viu"

----------------------------------------------------------------------------
\* Ordering, the request counter, page close and image content

EventKinds == {"request", "requestfinished", "response", "close"}

Suspended(k) == k.pc \notin {"done", "rejected"}

\* Task u executes in the step being taken: it starts, resumes or prints.
Runs(u) ==
  \/ u \notin DOMAIN tasks
  \/ tasks'[u] # tasks[u]
  \/ \E i \in DOMAIN Appended : Appended[i].t = u

\* C17: the handler of a later event executes no step while the handler of an
\* earlier event on the same observer is suspended at an await.
C17_HandlersOneAtATime ==
  [][\A u \in DOMAIN tasks' : \A t \in DOMAIN tasks :
       (/\ t < u /\ Runs(u)
        /\ tasks[t].ev \in EventKinds /\ tasks'[u].ev \in EventKinds
        /\ tasks[t].o = tasks'[u].o)
         => ~Suspended(tasks[t])]_vars

\* The 'request' events observer o handled that satisfy P.
Counted(o, P(_)) == Cardinality({t \in DOMAIN tasks : tasks[t].o = o /\ P(tasks[t])})

IsRequestEvent(k) == k.ev = "request"

NeverDecreases == \A o \in DOMAIN dp : dp'[o].requestCount >= dp[o].requestCount

ExpectedClosing(t, url, screenshots) ==
  IF url.prefix = "data:text/html;base64" /\ screenshots
  THEN <<E(t, "closedline", url),
         E(t, "payload", IF url.length <= PayloadLimit THEN url.length ELSE PayloadLimit)>>
  ELSE <<E(t, "closedline", url)>>

\* C19: a close handler prints the closure line with the URL, then the decoded
\* payload cut to 5120 characters iff the URL is a base64 HTML data URL and
\* screenshots is set, then the dated header and the whole session log, and
\* nothing else; the log is dumped on every close.
C19_CloseSequence ==
  \A t \in DOMAIN tasks :
    tasks[t].ev = "close" =>
      LET es == Of(t, AllKinds)
          o == tasks[t].o
      IN  /\ Len(es) >= 2 /\ es[1].k = "closedline"
          /\ es = ExpectedClosing(t, es[1].a, tasks[t].cfg.screenshots)
                    \o <<E(t, "coverage", "today")>>
                    \o ExpectedDump(t, dp[o].logger)

\* A page closed on a data URL with more than 5120 characters of payload, with
\* screenshots set and a response in the session log.
C19_Witness ==
  \E t \in DOMAIN tasks :
    /\ tasks[t].ev = "close" /\ tasks[t].cfg.screenshots
    /\ Of(t, {"payload"}) = <<E(t, "payload", PayloadLimit)>>
    /\ Len(Of(t, {"logline"})) = 1

\* C20: with formattedContent set, a finished success response of a document
\* whose content-type begins with image/jpeg has run the renderer exactly once,
\* on a fresh temporary file with extension jpeg holding the response body, and
\* has not run the text renderer.
C20_JpegRendered ==
  \A t \in DOMAIN tasks :
    (/\ IsDocumentResponse(tasks[t]) /\ tasks[t].cfg.formattedContent
     /\ tasks[t].status < 300 /\ Finished(t)
     /\ Of(t, {"status"}) # <<>> /\ Of(t, {"status"})[1].a.contentType \in JpegTypes)
      => /\ Len(Of(t, {"exec"})) = 1
         /\ Len(Of(t, {"writeFile"})) = 1
         /\ LET f == Of(t, {"exec"})[1].a.file
                w == Of(t, {"writeFile"})[1].a
            IN  /\ f.extension = "jpeg"
                /\ w.file = f /\ w.content = <<"body", tasks[t].req.url>>
                /\ \A u \in DOMAIN tasks : u # t => tasks[u].file # f
         /\ Of(t, {"lynx", "text"}) = <<>>

----------------------------------------------------------------------------
\* The text renderer

\* The arguments of the entries of kind k of task t, in order.
ArgsOf(t, k) ==
  LET es == Of(t, {k}) IN [i \in 1..Len(es) |-> es[i].a]

\* C21: with formattedContent set, a finished success response of a document with
\* content-type text/html has run lynx once with exactly the body text on its
\* standard input, and every chunk lynx wrote was printed at once, in order.
C21_LynxStreams ==
  \A t \in DOMAIN tasks :
    (/\ IsDocumentResponse(tasks[t]) /\ tasks[t].cfg.formattedContent
     /\ tasks[t].status < 300 /\ Finished(t)
     /\ Of(t, {"status"}) # <<>>
     /\ Of(t, {"status"})[1].a.contentType = ContentType(<<"text", "html">>))
      => /\ ArgsOf(t, "lynx") = <<[stdin |-> <<"body", tasks[t].req.url>>]>>
         /\ ArgsOf(t, "lynxout") = ArgsOf(t, "chunk")
         /\ \A i \in DOMAIN trace :
              (trace[i].t = t /\ trace[i].k = "chunk")
                => /\ i < Len(trace)
                   /\ trace[i + 1] = E(t, "lynxout", trace[i].a)

----------------------------------------------------------------------------
\* Construction and independence of observers

\* The observers in s (in order) that are constructed listening on page p.
RECURSIVE ListeningOn(_, _)
ListeningOn(p, n) ==
  IF n = 0 THEN <<>>
  ELSE IF dp[n].listen /\ dp[n].page = p
       THEN Append(ListeningOn(p, n - 1), n)
       ELSE ListeningOn(p, n - 1)

\* The handlers the step being taken started, in order.
Started == SubSeq(tasks', Len(tasks) + 1, Len(tasks'))

\* C22: an observer constructed with listen=true is registered on its page when
\* the constructor returns, so that each close, request, requestfinished and
\* response event of the page starts one handler for every listening observer of
\* the page; an observer constructed with listen=false is registered on no
\* page, no event starts a handler for it, and its counter, log and command stay
\* as constructed.
C22_ListenRegisters ==
  /\ [](\A o \in DOMAIN dp :
          /\ \A p \in Pages : listeners[p] = ListeningOn(p, Cardinality(DOMAIN dp))
          /\ ~dp[o].listen =>
               /\ \A t \in DOMAIN tasks : tasks[t].o # o
               /\ dp[o].requestCount = 0 /\ dp[o].logger = <<>>
               /\ dp[o].command = DEFAULT_COMMAND)
  /\ [][Started # <<>> =>
          /\ Started[1].ev \in EventKinds
          /\ LET p == dp[Started[1].o].page IN
               /\ Len(Started) = Len(ListeningOn(p, Cardinality(DOMAIN dp)))
               /\ \A i \in DOMAIN Started :
                    /\ Started[i].o = ListeningOn(p, Cardinality(DOMAIN dp))[i]
                    /\ Started[i].ev = Started[1].ev]_vars

\* On one page, an observer constructed with listen=false and one constructed
\* with listen=true: a document request was counted by the listening one only.
C22_Witness ==
  /\ DOMAIN dp = {1, 2}
  /\ dp[1].page = dp[2].page
  /\ ~dp[1].listen /\ dp[2].listen
  /\ dp[1].requestCount = 0 /\ dp[2].requestCount = 1
  /\ \E t \in DOMAIN tasks : tasks[t].ev = "close"

\* C27: a step taken for one page (an event of the page, or the continuation of
\* a handler of its observer, a fallback command switch included) leaves every
\* observer of another page as it was: counter, log, command and flags.
C27_ObserversIndependent ==
  [][\A o \in DOMAIN dp :
       (\A u \in DOMAIN tasks' : Runs(u) => dp'[tasks'[u].o].page # dp[o].page)
         => dp'[o] = dp[o]]_vars

\* Observers listen on two pages; the one of page 1 fell back to viu inside tmux,
\* the one of page 2 still has the command it was constructed with.
C27_Witness ==
  /\ DOMAIN dp = {1, 2}
  /\ dp[1].page = 1 /\ dp[2].page = 2
  /\ dp[1].listen /\ dp[2].listen
  /\ dp[1].command = <<"viu">> /\ dp[2].command = DEFAULT_COMMAND

----------------------------------------------------------------------------
\* Request events

IsRequestTask(k) == k.ev \in {"request", "requestfinished"}

\* C23: a request or requestfinished event of a request that is no document,
\* whatever its method, prints one report line if logAssetRequests is set and
\* none otherwise, never starts a screenshot and never prints POST parameters.
C23_AssetRequestReportOnly ==
  \A t \in DOMAIN tasks :
    (IsRequestTask(tasks[t]) /\ tasks[t].req.rtype # "document")
      => /\ Of(t, ScreenshotKinds \cup {"postparams"}) = <<>>
         /\ tasks[t].pc = "done"
         /\ Len(Of(t, {"report"})) = IF tasks[t].cfg.logAssetRequests THEN 1 ELSE 0

\* The requestfinished event of a POST for an image was reported, with asset
\* logging, POST parameters and screenshots all on.
C23_Witness ==
  \E t \in DOMAIN tasks :
    /\ tasks[t].ev = "requestfinished" /\ tasks[t].req.rtype = "image"
    /\ tasks[t].req.method = POST
    /\ tasks[t].cfg.logAssetRequests /\ tasks[t].cfg.logPOSTParams /\ tasks[t].cfg.screenshots
    /\ Len(Of(t, {"report"})) = 1

\* The event of task k is one that prints POST parameters.
PrintsParameters(k) ==
  /\ k.ev = "requestfinished" /\ k.cfg.listen
  /\ k.req.rtype = "document" /\ k.req.method = POST
  /\ k.cfg.logPOSTParams

\* C24: POST parameters are printed once for a requestfinished event of a
\* document POST on a listening observer with logPOSTParams set, and for no other
\* request event; they are printed before the screenshot of the same event starts.
C24_POSTParameters ==
  \A t \in DOMAIN tasks :
    IsRequestTask(tasks[t]) =>
      /\ Len(Of(t, {"postparams"})) = IF PrintsParameters(tasks[t]) THEN 1 ELSE 0
      /\ \A i \in DOMAIN trace : \A j \in DOMAIN trace :
           (/\ trace[i].t = t /\ trace[i].k = "postparams"
            /\ trace[j].t = t /\ trace[j].k \in ScreenshotKinds)
             => i < j

\* The requestfinished event of a document POST printed its parameters and then
\* started a screenshot.
C24_Witness ==
  \E t \in DOMAIN tasks :
    /\ PrintsParameters(tasks[t]) /\ tasks[t].cfg.screenshots
    /\ Len(Of(t, {"postparams"})) = 1
    /\ Len(Of(t, {"wait"})) = 1

----------------------------------------------------------------------------
\* printScreenshot

\* The page operations and the renderer call of a screenshot.
StepKinds == {"wait", "capture", "captured", "exec"}

\* A task that runs printScreenshot: a direct call, or a request event.
IsScreenshotTask(k) == k.ev = "printScreenshot" \/ IsRequestTask(k)

\* The steps of a complete screenshot of task t on file f.
FullScreenshot(t, f, fullPage, command) ==
  <<E(t, "wait", LOAD_STATE),
    E(t, "capture", [path |-> f, fullPage |-> fullPage]),
    E(t, "captured", f),
    E(t, "exec", [command |-> command, file |-> f])>>

\* How the page operations of task t settled, in order.
Settled(t) == ArgsOf(t, "settled")

\* C25: printScreenshot waits for domcontentloaded, then captures to a temporary
\* PNG file of its own, then runs the renderer on that file; the renderer runs
\* once if both the wait and the capture succeeded and not at all otherwise.
C25_ScreenshotOrder ==
  \A t \in DOMAIN tasks :
    IsScreenshotTask(tasks[t]) =>
      LET steps == Of(t, StepKinds)
          f == tasks[t].file
          full == FullScreenshot(t, f, tasks[t].cfg.fullPage, tasks[t].cfg.command)
      IN  /\ Len(steps) <= 4 /\ steps = SubSeq(full, 1, Len(steps))
          /\ steps # <<>> =>
               /\ f.extension = "png"
               /\ \A u \in DOMAIN tasks : u # t => tasks[u].file # f
          /\ Len(Of(t, {"exec"})) = IF Settled(t) = <<"ok", "ok">> THEN 1 ELSE 0
          /\ (tasks[t].pc = "done" /\ Settled(t) = <<"ok", "ok">>) => Len(steps) = 4

\* Two screenshots were taken to their ends, each rendered from its own file.
C25_Witness ==
  /\ Len(tasks) = 2
  /\ \A t \in DOMAIN tasks :
       /\ IsScreenshotTask(tasks[t]) /\ tasks[t].pc = "done"
       /\ Len(Of(t, {"exec"})) = 1

\* The wait or the capture of task t failed, and how.
Failure(t) == Settled(t)[Len(Settled(t))]

\* C26: when the wait or the capture fails on a page that was open when
\* printScreenshot started, a closed-target error prints nothing with verbose off
\* and one diagnostic line with verbose on, every other failure prints one
\* diagnostic line, no renderer runs and printScreenshot resolves.
C26_FailureReported ==
  \A t \in DOMAIN tasks :
    (/\ IsScreenshotTask(tasks[t]) /\ ~tasks[t].wasClosed
     /\ Settled(t) # <<>> /\ Failure(t) # "ok")
      => /\ tasks[t].pc = "done"
         /\ Of(t, {"exec", "rendered"}) = <<>>
         /\ Len(Of(t, OutputKinds \ {"report", "postparams"})) =
              IF Failure(t) = "closedError" /\ ~tasks[t].cfg.verbose THEN 0 ELSE 1
         /\ Len(Of(t, {"diag"})) =
              IF Failure(t) = "closedError" /\ ~tasks[t].cfg.verbose THEN 0 ELSE 1

\* A page closed while printScreenshot was waiting, and the closed-target error
\* was swallowed with verbose off.
C26_Witness ==
  \E t \in DOMAIN tasks :
    /\ IsScreenshotTask(tasks[t]) /\ ~tasks[t].wasClosed
    /\ ~tasks[t].cfg.verbose
    /\ Settled(t) # <<>> /\ Failure(t) = "closedError"
    /\ tasks[t].pc = "done"

----------------------------------------------------------------------------
\* The session log

IsPrefix(s, r) == Len(s) <= Len(r) /\ s = SubSeq(r, 1, Len(s))

\* A task that dumps the log: a printLogs call, or the close handler.
IsDump(k) == k.ev \in {"printLogs", "close"}

\* C28: every step leaves the entries the log has in place and in order, a dump
\* leaves the log as it is, and two dumps with no response event in between print
\* the same entries in the same order.
C28_LogAppendOnly ==
  /\ [][\A o \in DOMAIN dp :
          /\ IsPrefix(dp[o].logger, dp'[o].logger)
          /\ (Started # <<>> /\ IsDump(Started[1])) => dp'[o].logger = dp[o].logger]_vars
  /\ [](\A t \in DOMAIN tasks : \A u \in DOMAIN tasks :
          (/\ t < u /\ IsDump(tasks[t]) /\ IsDump(tasks[u]) /\ tasks[t].o = tasks[u].o
           /\ \A v \in (t + 1)..(u - 1) : tasks[v].ev # "response")
            => ArgsOf(t, "logline") = ArgsOf(u, "logline"))

\* After a document response, printLogs was called twice in a row and printed
\* the entry both times.
C28_Witness ==
  /\ Len(tasks) = 3
  /\ tasks[1].ev = "response" /\ tasks[2].ev = "printLogs" /\ tasks[3].ev = "printLogs"
  /\ Len(ArgsOf(2, "logline")) = 1
  /\ ArgsOf(3, "logline") = ArgsOf(2, "logline")
  /\ Len(dp[1].logger) = 1

----------------------------------------------------------------------------
\* Flags assigned after construction

\* Request events handled once screenshots was set to false start no screenshot.
NoScreenshotOnceOff ==
  \A t \in DOMAIN tasks :
    (IsRequestTask(tasks[t]) /\ ~tasks[t].cfg.screenshots) => Of(t, ScreenshotKinds) = <<>>

\* C29: the flags are read when an event is handled: a request event that arrives
\* after screenshots was set to false starts no screenshot, and a success response
\* of a document that arrives after formattedContent was set to true is handed to
\* dumpformattedContent, which reads the content-type a second time.
C29_FlagsReadLive ==
  /\ NoScreenshotOnceOff
  /\ \A t \in DOMAIN tasks :
       (/\ IsDocumentResponse(tasks[t]) /\ tasks[t].cfg.formattedContent
        /\ tasks[t].status < 300 /\ Finished(t))
         => Len(Of(t, {"header"})) = 2

----------------------------------------------------------------------------
\* The response classifier

\* C30: every status code gets exactly one of the three classes: success below
\* 300, redirect from 300 up to 399, error from 400 on.
C30_ClassifierPartitions ==
  Len(trace) = 2 =>
    LET code == trace[1].a
        mark == trace[2].a
    IN  /\ mark \in {"heart", "rocket", "poo"}
        /\ (mark = "heart") <=> (code < 300)
        /\ (mark = "rocket") <=> (300 <= code /\ code < 400)
        /\ (mark = "poo") <=> (code >= 400)

\* The status 300 was classified as a redirect.
C30_Witness ==
  /\ Len(trace) = 2
  /\ trace[1].a = 300 /\ trace[2].a = "rocket"

----------------------------------------------------------------------------
\* Registration of the listeners

\* C31: whatever was called on the observer before, one document request raises
\* the request counter by one, and one document response appends at most one
\* log entry and starts at most one handler (hence one status line) per observer.
C31_RegisteredOnce ==
  [][/\ \A o \in DOMAIN dp :
          /\ dp'[o].requestCount <= dp[o].requestCount + 1
          /\ Len(dp'[o].logger) <= Len(dp[o].logger) + 1
     /\ \A i, j \in DOMAIN Started : i # j => Started[i].o # Started[j].o]_vars

----------------------------------------------------------------------------
\* Order of the status lines

\* Where the status line of handler t stands in the output.
StatusPos(t) == CHOOSE i \in DOMAIN trace : trace[i].t = t /\ trace[i].k = "status"

HasStatusLine(t) == Of(t, {"status"}) # <<>>

\* C32: of two document responses of one observer that both got their status
\* line, the one whose log entry was appended first has its status line first.
C32_StatusOrderIsLogOrder ==
  \A a, b \in DOMAIN tasks :
    (/\ a < b
     /\ IsDocumentResponse(tasks[a]) /\ IsDocumentResponse(tasks[b])
     /\ tasks[a].o = tasks[b].o
     /\ HasStatusLine(a) /\ HasStatusLine(b))
      => StatusPos(a) < StatusPos(b)

----------------------------------------------------------------------------
\* listen turned off

\* A handler that a page event started while its observer's listen was false.
StartedListenOff(k) == k.ev \in EventKinds /\ ~k.cfg.listen

\* C33: once listen is false, a request, requestfinished or response event
\* starts a handler that ends at once without output, call, screenshot or
\* content rendering, and no step of such an event changes the request counter
\* or the session log; a close event still prints the closure line, the payload
\* if any, the dated header and the session log.
C33_ListenOffSilences ==
  /\ [](\A t \in DOMAIN tasks :
          StartedListenOff(tasks[t]) =>
            IF tasks[t].ev = "close"
            THEN LET es == Of(t, AllKinds) IN
                   /\ Len(es) >= 2 /\ es[1].k = "closedline"
                   /\ es = ExpectedClosing(t, es[1].a, tasks[t].cfg.screenshots)
                             \o <<E(t, "coverage", "today")>>
                             \o ExpectedDump(t, dp[tasks[t].o].logger)
            ELSE Of(t, AllKinds) = <<>> /\ tasks[t].pc = "done")
  /\ [][\A o \in DOMAIN dp :
          (~dp[o].listen /\ Started # <<>>)
            => /\ dp'[o].requestCount = dp[o].requestCount
               /\ dp'[o].logger = dp[o].logger]_vars

\* After listen was turned off, a document request and the close of the page
\* were handled: the request left no trace and the counter at 0, the close
\* handler printed the closure line and the dated header.
C33_Witness ==
  \E t, u \in DOMAIN tasks :
    /\ StartedListenOff(tasks[t]) /\ tasks[t].ev = "request"
    /\ tasks[t].req.rtype = "document"
    /\ dp[tasks[t].o].requestCount = 0
    /\ StartedListenOff(tasks[u]) /\ tasks[u].ev = "close"
    /\ Len(Of(u, {"coverage"})) = 1

----------------------------------------------------------------------------
\* Persistence of the fallback

\* Entries i and j of the output come from handlers of one observer.
SameObserver(i, j) ==
  /\ trace[i].t \in DOMAIN tasks /\ trace[j].t \in DOMAIN tasks
  /\ tasks[trace[i].t].o = tasks[trace[j].t].o

ProbeKinds == {"which", "notice", "stderr"}

\* C34: after the fallback notice of an observer nothing of that observer probes
\* for a renderer or prints the notice again, every later renderer call runs the
\* fallback, and the observer's command stays the fallback once it is one.
C34_FallbackOnce ==
  /\ [](\A i, j \in DOMAIN trace :
          (i < j /\ trace[i].k = "notice" /\ SameObserver(i, j))
            => /\ trace[j].k \notin ProbeKinds
               /\ trace[j].k = "exec" => trace[j].a.command = <<trace[i].a>>)
  /\ [][\A o \in DOMAIN dp :
          ~includes(dp[o].command, "imgcat") => dp'[o].command = dp[o].command]_vars

\* Inside tmux a first printImage call fell back with the notice, and a later
\* call on the same observer ran the renderer without probing.
C34_Witness ==
  \E t, u \in DOMAIN tasks :
    /\ t < u /\ tasks[t].o = tasks[u].o
    /\ Len(Of(t, {"notice"})) = 1
    /\ Len(Of(u, {"exec"})) = 1 /\ Of(u, ProbeKinds) = <<>>

----------------------------------------------------------------------------
\* Frame of printScreenshot and printImage

\* The step being taken starts the handler of a request or response event.
StartsEventHandler ==
  \E i \in DOMAIN Started : Started[i].ev \in {"request", "requestfinished", "response"}

\* C35: a step that is no request or response event (a printScreenshot or
\* printImage call, the end of a readiness wait or of a capture with any outcome,
\* the renderer's success or failure, a step of the hook) leaves every
\* observer's request counter and session log as they were, and the
\* listen=false observers the hook creates have counter 0 and an empty log.
C35_ScreenshotFrame ==
  /\ [][~StartsEventHandler =>
          \A o \in DOMAIN dp :
            /\ dp'[o].requestCount = dp[o].requestCount
            /\ dp'[o].logger = dp[o].logger]_vars
  /\ [](\A o \in DOMAIN dp :
          ~dp[o].listen => dp[o].requestCount = 0 /\ dp[o].logger = <<>>)

\* With a response in the session log, a printScreenshot call on the listening
\* observer ended in a diagnostic and the log still holds its one entry.
C35_Witness ==
  /\ Len(dp[1].logger) = 1
  /\ \E t \in DOMAIN tasks :
       /\ tasks[t].ev = "printScreenshot" /\ tasks[t].o = 1 /\ tasks[t].pc = "done"
       /\ Of(t, {"diag"}) # <<>>

----------------------------------------------------------------------------
\* Termination of printScreenshot

\* Task t has called printScreenshot: directly, or from a request event.
CalledPrintScreenshot(t) ==
  /\ t \in DOMAIN tasks
  /\ tasks[t].ev = "printScreenshot" \/ Of(t, {"wait"}) # <<>>

\* The three outcomes of a call.
RendererInvoked(t) ==
  /\ Len(Of(t, {"exec"})) = 1
  /\ Of(t, {"exec"})[1].a.file = tasks[t].file
OneDiagnostic(t) == Len(Of(t, {"diag"})) = 1
SilentlySkipped(t) == Of(t, {"exec", "diag"}) = <<>>

OutcomeCount(t) ==
  (IF RendererInvoked(t) THEN 1 ELSE 0) + (IF OneDiagnostic(t) THEN 1 ELSE 0)
    + (IF SilentlySkipped(t) THEN 1 ELSE 0)

\* C36 as stated: every started call finishes, and a finished call has exactly
\* one of: the renderer invoked on the captured file, one diagnostic line,
\* nothing at all.
C36_ExactlyOneOutcome ==
  /\ \A t \in 1..MaxTasks :
       CalledPrintScreenshot(t) ~> (CalledPrintScreenshot(t) /\ Finished(t))
  /\ [](\A t \in DOMAIN tasks :
          CalledPrintScreenshot(t) /\ Finished(t) => OutcomeCount(t) = 1)

\* C36: every started call finishes, and a finished call has exactly one of:
\* the renderer invoked on the captured file, with at most the one diagnostic
\* line of the renderer's own failure; one diagnostic line and no renderer;
\* nothing at all.
C36_OneOutcomeByRenderer ==
  /\ \A t \in 1..MaxTasks :
       CalledPrintScreenshot(t) ~> (CalledPrintScreenshot(t) /\ Finished(t))
  /\ [](\A t \in DOMAIN tasks :
          CalledPrintScreenshot(t) /\ Finished(t) =>
            \/ /\ RendererInvoked(t)
               /\ Of(t, {"diag"}) \in {<<>>, <<E(t, "diag", "renderer")>>}
            \/ Of(t, {"exec"}) = <<>> /\ OneDiagnostic(t)
            \/ SilentlySkipped(t))

\* A call captured the page and the renderer it invoked failed with its line.
C36_Witness ==
  \E t \in DOMAIN tasks :
    /\ CalledPrintScreenshot(t) /\ Finished(t)
    /\ RendererInvoked(t) /\ Of(t, {"diag"}) = <<E(t, "diag", "renderer")>>

----------------------------------------------------------------------------
\* The conversion command

\* The template with every placeholder replaced by its path and nothing else
\* changed.
RECURSIVE Substituted(_, _, _)
Substituted(template, video, gif) ==
  IF template = <<>> THEN <<>>
  ELSE (IF template[1] = "{video}" THEN video
        ELSE IF template[1] = "{gif}" THEN gif
        ELSE <<template[1]>>)
       \o Substituted(SubSeq(template, 2, Len(template)), video, gif)

\* C37: the command movieToGIF executes is the template with each {video}
\* replaced by the video path and each {gif} by the gif path, the paths taken
\* literally.
C37_CommandIsSubstitution ==
  \A i \in DOMAIN trace :
    trace[i].k = "convert" =>
      trace[i].a = Substituted(trace[1].a.template, trace[1].a.video, trace[1].a.gif)

====
